---- MODULE Spec2Model ----
(***************************************************************************)
(* The DecompressChunk custom scan node of TimescaleDB: the executor side  *)
(* (decompress_chunk_begin, decompress_chunk_exec_impl,                    *)
(* perform_vectorized_aggregation, perform_vectorized_sum_int4,            *)
(* decompress_chunk_rescan) over a child scan that yields compressed       *)
(* batches.  The batch queues (FIFO, heap) and the batch array live in     *)
(* files that are not part of the sources at hand; they are modelled from  *)
(* sections 3, 4.4 and 4.5 of the specification.                           *)
(***************************************************************************)
EXTENDS Integers, Sequences, FiniteSets, TLC

(***************************************************************************)
(* Bounds of the model.                                                    *)
(***************************************************************************)
MaxBatches == 2        \* batches the child yields (row mode)
MaxRows == 2           \* rows of one batch (row mode)
KeyMax == 3            \* sort key values are 1..KeyMax
MaxRescans == 1        \* rescans of one operator instance
MaxAggBatches == 2     \* batches the child yields (aggregation mode)
MaxAggRows == 1        \* rows of one generic batch (aggregation mode)
MaxQuals == 2          \* vectorized quals of one plan

(***************************************************************************)
(* Program constants.                                                      *)
(***************************************************************************)
INT32_MAX == 2147483647
INT32_MIN == (-2147483647) - 1
MaxRowsPerBatch == 1024     \* the most rows of a compressed batch
DECOMPRESS_CHUNK_COUNT_ID == -9
DECOMPRESS_CHUNK_SEQUENCE_NUM_ID == -10

(***************************************************************************)
(* 64-bit integers.  TLC's integers are 32 bits wide, so an integer x is   *)
(* held as <<a, b, c>> with x = a * 2^60 + b * 2^30 + c, 0 <= b, c < 2^30. *)
(* x is in the range of int64 exactly when -8 <= a <= 7.                   *)
(***************************************************************************)
Limb == 1024 * 1024 * 1024

WNorm(a, b, c) ==
  LET c2 == c % Limb
      b1 == b + ((c - c2) \div Limb)
      b2 == b1 % Limb
      a2 == a + ((b1 - b2) \div Limb)
  IN  <<a2, b2, c2>>

W(v) == WNorm(0, 0, v)

WAdd(x, y) == WNorm(x[1] + y[1], x[2] + y[2], x[3] + y[3])

WInInt64(x) == x[1] >= -8 /\ x[1] <= 7

\* The value the 64 bits hold after a wrap-around (two's complement).
WWrap64(x) == <<((x[1] + 8) % 16) - 8, x[2], x[3]>>

WInInt32(x) ==
  \/ x[1] = 0 /\ x[2] <= 1
  \/ x[1] = -1 /\ x[2] >= Limb - 2

\* x * n for an int32 n >= 0, by doubling.
RECURSIVE WMulNat(_, _)
WMulNat(x, n) ==
  IF n = 0 THEN W(0)
  ELSE IF n % 2 = 1 THEN WAdd(x, WMulNat(WAdd(x, x), n \div 2))
  ELSE WMulNat(WAdd(x, x), n \div 2)

WNeg(x) == WNorm(-x[1], -x[2], -x[3])

\* v * n for int32 v and n.  INT32_MIN has no int32 negation: -n - 1 + 1.
WMul32(v, n) ==
  IF n >= 0 THEN WMulNat(W(v), n)
  ELSE WNeg(WAdd(WMulNat(W(v), -(n + 1)), W(v)))

VARIABLES
  plan,         \* the CustomScan plan node handed to the executor
  child,        \* the batches the compressed scan yields, in its order
  child_pos,    \* index in child of the batch the next ExecProcNode returns
  child_calls,  \* ExecProcNode calls on the child since open or the last rescan
  chunk_state,  \* DecompressChunkState
  phase,        \* "created", "open" or "error"
  result,       \* what the last call of exec returned
  output,       \* the rows exec returned since open or the last rescan
  rescans,      \* rescans since open
  aux,          \* history of the last calls (what no field of the code holds)
  fn_in,        \* input of a pure function under check
  fn_out        \* its result

vars == <<plan, child, child_pos, child_calls, chunk_state, phase, result,
          output, rescans, aux, fn_in, fn_out>>

(***************************************************************************)
(* Data.  A batch is one row of the child scan.  In row mode it is seen    *)
(* through its decompressed rows: keys[i] is the sort key of row i in the  *)
(* order the batch yields its rows, pass[i] says whether row i passes the  *)
(* quals, min and max are the batch's metadata columns of the sort key.    *)
(* In aggregation mode it is seen as the compressed tuple: tuple[attno] is *)
(* the datum of the child's target list entry attno.                       *)
(***************************************************************************)
NullDatum == [isnull |-> TRUE, val |-> 0, values |-> <<>>, validity |-> <<>>]
ScalarDatum(v) == [isnull |-> FALSE, val |-> v, values |-> <<>>, validity |-> <<>>]
\* A compressed column: what decompress_all makes of it, an ArrowArray with
\* the values in buffers[1] and the validity bitmap in buffers[0].
BlobDatum(vals, bits) ==
  [isnull |-> FALSE, val |-> 0, values |-> vals, validity |-> bits]

RECURSIVE SeqMin(_)
SeqMin(s) ==
  IF Len(s) = 1 THEN s[1]
  ELSE LET m == SeqMin(Tail(s)) IN IF s[1] < m THEN s[1] ELSE m

RECURSIVE SeqMax(_)
SeqMax(s) ==
  IF Len(s) = 1 THEN s[1]
  ELSE LET m == SeqMax(Tail(s)) IN IF s[1] > m THEN s[1] ELSE m

RowBatch(ks, ps) ==
  [keys |-> ks, pass |-> ps, min |-> SeqMin(ks), max |-> SeqMax(ks),
   tuple |-> <<>>]

AggBatch(t) == [keys |-> <<>>, pass |-> <<>>, min |-> 0, max |-> 0, tuple |-> t]

NoRow == [b |-> 0, i |-> 0, key |-> 0]

\* What exec returns: nothing yet, a row, the end of the stream (NULL), the
\* aggregate tuple, or an error raised.
NoResult ==
  [kind |-> "none", row |-> NoRow, isnull |-> TRUE, value |-> W(0), err |-> ""]
RowResult(r) ==
  [kind |-> "row", row |-> r, isnull |-> FALSE, value |-> W(0), err |-> ""]
EosResult ==
  [kind |-> "eos", row |-> NoRow, isnull |-> TRUE, value |-> W(0), err |-> ""]
AggResult(n, v) ==
  [kind |-> "agg", row |-> NoRow, isnull |-> n, value |-> v, err |-> ""]
ErrResult(e) ==
  [kind |-> "error", row |-> NoRow, isnull |-> TRUE, value |-> W(0), err |-> e]

(***************************************************************************)
(* The batch array: the batch states of the open batches, by slot index    *)
(* (0-based, as in the code).  Slot s is batch_states[s + 1].              *)
(***************************************************************************)
FreeSlot == [used |-> FALSE, b |-> 0, cur |-> 0]

batch_array_create(n) == [s \in 1..n |-> FreeSlot]

n_batch_states(cs) == Len(cs.batch_states)

unused_batch_states(cs) ==
  {s \in 0..(n_batch_states(cs) - 1) : ~cs.batch_states[s + 1].used}

batch_array_get_at(cs, s) == cs.batch_states[s + 1]

\* The lowest unused slot; the array grows when every slot is in use.
batch_array_get_free_slot(cs) ==
  IF unused_batch_states(cs) # {}
  THEN CHOOSE s \in unused_batch_states(cs) :
         \A t \in unused_batch_states(cs) : s <= t
  ELSE n_batch_states(cs)

batch_array_free_at(cs, s) ==
  [cs EXCEPT !.batch_states[s + 1] = FreeSlot]

batch_array_set(cs, s, bidx, c) ==
  LET grown == IF s + 1 > Len(cs.batch_states)
               THEN Append(cs.batch_states, FreeSlot) ELSE cs.batch_states
  IN  [cs EXCEPT !.batch_states =
         [grown EXCEPT ![s + 1] = [used |-> TRUE, b |-> bidx, cur |-> c]]]

(***************************************************************************)
(* One batch state: the cursor over the rows that pass the quals.          *)
(***************************************************************************)
\* The first row at or after i whose mask bit is set; Len + 1 when none is.
RECURSIVE FirstPassFrom(_, _)
FirstPassFrom(batch, i) ==
  IF i > Len(batch.keys) THEN Len(batch.keys) + 1
  ELSE IF batch.pass[i] THEN i
  ELSE FirstPassFrom(batch, i + 1)

SlotRow(cs, s) ==
  LET st == batch_array_get_at(cs, s)
  IN  [b |-> st.b, i |-> st.cur, key |-> child[st.b].keys[st.cur]]

(***************************************************************************)
(* The sort order of batch sorted merge.  The model has one sort key; it   *)
(* is ascending or descending (the strategy of the pathkey's operator).    *)
(* The child's batches are sorted on the min metadata column of the key    *)
(* for an ascending key and on the max column for a descending one.        *)
(***************************************************************************)
\* a sorts strictly before b under the sort operator.
SortsBefore(cs, a, b) == IF cs.sortkeys[1].ssup_reverse THEN a > b ELSE a < b

BatchMeta(cs, batch) ==
  IF cs.sortkeys[1].ssup_reverse THEN batch.max ELSE batch.min

(***************************************************************************)
(* The FIFO queue (specification 4.4): one slot, batch state 0.            *)
(***************************************************************************)
batch_queue_fifo_create(cs) ==
  [cs EXCEPT !.batch_states = batch_array_create(1), !.heap = <<>>]

batch_queue_fifo_needs_next_batch(cs, pos) ==
  ~batch_array_get_at(cs, 0).used

\* Advance the cursor to the next row that passes; free the batch when the
\* cursor reaches the length.  Nothing to do on an empty slot.
batch_queue_fifo_pop(cs) ==
  LET st == batch_array_get_at(cs, 0)
      nxt == FirstPassFrom(child[st.b], st.cur + 1)
  IN  IF ~st.used THEN cs
      ELSE IF nxt > Len(child[st.b].keys) THEN batch_array_free_at(cs, 0)
      ELSE batch_array_set(cs, 0, st.b, nxt)

\* The batch state is built over the compressed row, the vectorized quals
\* give the mask, and the cursor stands on the first row that passes.  A
\* batch of which no row passes leaves the slot empty.
batch_queue_fifo_push_batch(cs, bidx) ==
  LET first == FirstPassFrom(child[bidx], 1)
  IN  IF first > Len(child[bidx].keys) THEN batch_array_free_at(cs, 0)
      ELSE batch_array_set(cs, 0, bidx, first)

batch_queue_fifo_reset(cs) == batch_array_free_at(cs, 0)

batch_queue_fifo_top_tuple(cs) ==
  IF batch_array_get_at(cs, 0).used THEN RowResult(SlotRow(cs, 0))
  ELSE EosResult

(***************************************************************************)
(* The heap queue (specification 4.5).  heap holds the slots of the open   *)
(* batches in insertion order; the root is the slot whose current row      *)
(* sorts first, the earliest inserted one among equal keys.                *)
(***************************************************************************)
batch_queue_heap_create(cs) ==
  [cs EXCEPT !.batch_states = batch_array_create(1), !.heap = <<>>]

HeapRootPos(cs) ==
  CHOOSE p \in 1..Len(cs.heap) :
    \A q \in 1..Len(cs.heap) :
      LET kp == SlotRow(cs, cs.heap[p]).key
          kq == SlotRow(cs, cs.heap[q]).key
      IN  \/ SortsBefore(cs, kp, kq)
          \/ kp = kq /\ p <= q

HeapRoot(cs) == cs.heap[HeapRootPos(cs)]

RemoveAt(s, p) == [i \in 1..(Len(s) - 1) |-> IF i < p THEN s[i] ELSE s[i + 1]]

\* Peek is refused (a batch is asked for first) while the heap is empty or
\* the root's leading sort value is not before the min (ascending; max for
\* descending) of the next unopened batch.
batch_queue_heap_needs_next_batch(cs, pos) ==
  \/ cs.heap = <<>>
  \/ /\ pos <= Len(child)
     /\ ~SortsBefore(cs, SlotRow(cs, HeapRoot(cs)).key,
                     BatchMeta(cs, child[pos]))

\* Advance the root's cursor past its row to the next mask-set position;
\* the batch leaves the heap and is released when it is exhausted.
batch_queue_heap_pop(cs) ==
  IF cs.heap = <<>> THEN cs
  ELSE LET p == HeapRootPos(cs)
           s == cs.heap[p]
           st == batch_array_get_at(cs, s)
           nxt == FirstPassFrom(child[st.b], st.cur + 1)
       IN  IF nxt > Len(child[st.b].keys)
           THEN [batch_array_free_at(cs, s) EXCEPT !.heap = RemoveAt(cs.heap, p)]
           ELSE batch_array_set(cs, s, st.b, nxt)

\* A batch of which no row passes is released and not inserted.
batch_queue_heap_push_batch(cs, bidx) ==
  LET s == batch_array_get_free_slot(cs)
      first == FirstPassFrom(child[bidx], 1)
  IN  IF first > Len(child[bidx].keys) THEN cs
      ELSE [batch_array_set(cs, s, bidx, first) EXCEPT
              !.heap = Append(cs.heap, s)]

batch_queue_heap_reset(cs) == [cs EXCEPT !.heap = <<>>]

batch_queue_heap_top_tuple(cs) ==
  IF cs.heap = <<>> THEN EosResult
  ELSE RowResult(SlotRow(cs, HeapRoot(cs)))

(***************************************************************************)
(* The queue the operator was opened with (BatchQueueFunctionsFifo,        *)
(* BatchQueueFunctionsHeap).                                               *)
(***************************************************************************)
queue_needs_next_batch(cs, pos) ==
  IF cs.batch_queue = "heap" THEN batch_queue_heap_needs_next_batch(cs, pos)
  ELSE batch_queue_fifo_needs_next_batch(cs, pos)

queue_pop(cs) ==
  IF cs.batch_queue = "heap" THEN batch_queue_heap_pop(cs)
  ELSE batch_queue_fifo_pop(cs)

queue_push_batch(cs, bidx) ==
  IF cs.batch_queue = "heap" THEN batch_queue_heap_push_batch(cs, bidx)
  ELSE batch_queue_fifo_push_batch(cs, bidx)

queue_reset(cs) ==
  IF cs.batch_queue = "heap" THEN batch_queue_heap_reset(cs)
  ELSE batch_queue_fifo_reset(cs)

queue_top_tuple(cs) ==
  IF cs.batch_queue = "heap" THEN batch_queue_heap_top_tuple(cs)
  ELSE batch_queue_fifo_top_tuple(cs)

(***************************************************************************)
(* decompress_chunk_state_create: the node state holds the plan's private  *)
(* lists and settings; everything else is zero.                            *)
(***************************************************************************)
decompress_chunk_state_create(p) ==
  [ decompression_map |-> p.decompression_map,
    is_segmentby_column |-> p.is_segmentby_column,
    bulk_decompression_column |-> p.bulk_decompression_column,
    vectorized_aggregation_column |-> p.vectorized_aggregation_column,
    desc |-> p.desc,
    sortinfo |-> p.sortinfo,
    aggfnoid |-> p.aggfnoid,
    reverse |-> p.reverse,
    batch_sorted_merge |-> p.batch_sorted_merge,
    enable_bulk_decompression |-> p.enable_bulk_decompression,
    perform_vectorized_aggregation |-> p.perform_vectorized_aggregation,
    vectorized_quals_original |-> p.vectorized_quals_original,
    chunk_relid |-> p.chunk_relid,
    ps_ProjInfo |-> p.ps_ProjInfo,
    projection_targetlist |-> IF p.ps_ProjInfo THEN p.targetlist ELSE <<>>,
    projection_builds |-> IF p.ps_ProjInfo THEN 1 ELSE 0,
    n_sortkeys |-> 0,
    sortkeys |-> <<>>,
    num_compressed_columns |-> 0,
    num_total_columns |-> 0,
    template_columns |-> <<>>,
    batch_memory_context_bytes |-> 0,
    batch_queue |-> "none",
    batch_states |-> <<>>,
    heap |-> <<>>,
    have_constant_false_vectorized_qual |-> FALSE,
    vectorized_quals_constified |-> <<>> ]

(***************************************************************************)
(* build_batch_sorted_merge_info: one SortSupport per sort key.  sortinfo  *)
(* is NIL or the four parallel lists (column, operator, collation, nulls   *)
(* first).  PrepareSortSupportFromOrderingOp sets ssup_reverse for an      *)
(* operator of the "greater" strategy.                                     *)
(***************************************************************************)
\* A variant that takes every ordering operator for its commutator.
build_batch_sorted_merge_info_commuted(cs) ==
  IF cs.sortinfo = <<>> THEN [cs EXCEPT !.n_sortkeys = 0, !.sortkeys = <<>>]
  ELSE [cs EXCEPT
          !.n_sortkeys = Len(cs.sortinfo[1]),
          !.sortkeys =
            [i \in 1..Len(cs.sortinfo[1]) |->
               [ssup_collation |-> cs.sortinfo[3][i],
                ssup_nulls_first |-> cs.sortinfo[4][i],
                ssup_attno |-> cs.sortinfo[1][i],
                ssup_reverse |-> cs.sortinfo[2][i] # ">"]]]

build_batch_sorted_merge_info(cs) ==
  IF cs.sortinfo = <<>> THEN [cs EXCEPT !.n_sortkeys = 0, !.sortkeys = <<>>]
  ELSE LET sort_col_idx == cs.sortinfo[1]
           sort_ops == cs.sortinfo[2]
           sort_collations == cs.sortinfo[3]
           sort_nulls == cs.sortinfo[4]
           n == Len(sort_col_idx)
       IN  [cs EXCEPT
              !.n_sortkeys = n,
              !.sortkeys =
                [i \in 1..n |->
                   [ssup_collation |-> sort_collations[i],
                    ssup_nulls_first |-> sort_nulls[i],
                    ssup_attno |-> sort_col_idx[i],
                    ssup_reverse |-> sort_ops[i] = ">"]]]

(***************************************************************************)
(* The column descriptor table of decompress_chunk_begin: compressed       *)
(* columns in front, segmentby and metadata columns behind them.           *)
(***************************************************************************)
NoColumn ==
  [compressed_scan_attno |-> 0, output_attno |-> 0,
   bulk_decompression_supported |-> FALSE, type |-> "NONE", value_bytes |-> 0]

\* Lines 1297-1314: the width of the values of a column; it stays zero for
\* a metadata column and for the column of a vectorized aggregation.
ValueBytes(cs, compressed_index, output_attno) ==
  IF output_attno <= 0 THEN 0
  ELSE IF /\ cs.perform_vectorized_aggregation
          /\ cs.vectorized_aggregation_column[compressed_index + 1] # "-1"
  THEN 0
  ELSE cs.desc[output_attno]

CountCompressed(cs) ==
  Cardinality({i \in 1..Len(cs.decompression_map) :
                 /\ cs.decompression_map[i] > 0
                 /\ ~cs.is_segmentby_column[i]})

CountTotal(cs) ==
  Cardinality({i \in 1..Len(cs.decompression_map) :
                 cs.decompression_map[i] # 0})

\* A variant that takes a segmentby column for a compressed one.
ColumnType_never_segmentby(cs, compressed_index, output_attno) ==
  IF output_attno > 0 THEN "COMPRESSED_COLUMN"
  ELSE IF output_attno = DECOMPRESS_CHUNK_COUNT_ID THEN "COUNT_COLUMN"
  ELSE IF output_attno = DECOMPRESS_CHUNK_SEQUENCE_NUM_ID
       THEN "SEQUENCE_NUM_COLUMN"
  ELSE "INVALID"

ColumnType(cs, compressed_index, output_attno) ==
  IF output_attno > 0
  THEN IF cs.is_segmentby_column[compressed_index + 1]
       THEN "SEGMENTBY_COLUMN" ELSE "COMPRESSED_COLUMN"
  ELSE IF output_attno = DECOMPRESS_CHUNK_COUNT_ID THEN "COUNT_COLUMN"
  ELSE IF output_attno = DECOMPRESS_CHUNK_SEQUENCE_NUM_ID
       THEN "SEQUENCE_NUM_COLUMN"
  ELSE "INVALID"

\* The loop over the decompression map; x holds the table and the two
\* indices current_compressed and current_not_compressed (0-based).
RECURSIVE FillTemplateColumns(_, _, _)
FillTemplateColumns(cs, x, compressed_index) ==
  IF compressed_index >= Len(cs.decompression_map) \/ x.err # "" THEN x
  ELSE
    LET output_attno == cs.decompression_map[compressed_index + 1]
        column ==
          [compressed_scan_attno |-> compressed_index + 1,
           output_attno |-> output_attno,
           bulk_decompression_supported |->
             cs.bulk_decompression_column[compressed_index + 1],
           type |-> ColumnType(cs, compressed_index, output_attno),
           value_bytes |-> ValueBytes(cs, compressed_index, output_attno)]
    IN  IF output_attno = 0
        THEN FillTemplateColumns(cs, x, compressed_index + 1)
        ELSE IF column.type = "INVALID"
        THEN [x EXCEPT !.err = "Invalid column attno"]
        ELSE IF column.type = "COMPRESSED_COLUMN"
        THEN FillTemplateColumns(cs,
               [x EXCEPT !.cols[x.current_compressed + 1] = column,
                         !.current_compressed = @ + 1],
               compressed_index + 1)
        ELSE FillTemplateColumns(cs,
               [x EXCEPT !.cols[x.current_not_compressed + 1] = column,
                         !.current_not_compressed = @ + 1],
               compressed_index + 1)

BuildTemplateColumns(cs) ==
  LET num_compressed == CountCompressed(cs)
      num_total == CountTotal(cs)
      x == FillTemplateColumns(cs,
             [cols |-> [j \in 1..num_total |-> NoColumn],
              current_compressed |-> 0,
              current_not_compressed |-> num_compressed,
              err |-> ""], 0)
  IN  [cs |-> [cs EXCEPT !.num_compressed_columns = num_compressed,
                         !.num_total_columns = num_total,
                         !.template_columns = x.cols],
       err |-> x.err]

(***************************************************************************)
(* Constification of the vectorized quals in decompress_chunk_begin.  A    *)
(* qual of the plan is "column op expr".  What estimate_expression_value   *)
(* makes of it depends on the qual: folds says whether the whole           *)
(* expression simplifies to a boolean constant, arg what the right operand *)
(* evaluates to, strict whether the operator is strict.                    *)
(***************************************************************************)
\* A node lives at an address that is not NULL.
NodeAddr == 1

ConstNode(isnull, v) ==
  [tag |-> "Const", addr |-> NodeAddr, constisnull |-> isnull,
   constvalue |-> v, arg_is_const |-> FALSE]

OpExprNode(argconst) ==
  [tag |-> "OpExpr", addr |-> NodeAddr, constisnull |-> FALSE,
   constvalue |-> 0, arg_is_const |-> argconst]

estimate_expression_value(q) ==
  IF q.folds = "false" THEN ConstNode(FALSE, 0)
  ELSE IF q.folds = "true" THEN ConstNode(FALSE, 1)
  ELSE IF q.arg = "null" /\ q.strict THEN ConstNode(TRUE, 0)
  ELSE OpExprNode(q.arg # "param")

\* DatumGetBool(X) is ((bool) ((X) != 0)).
DatumGetBool(X) == X # 0

\* A variant that does not look at constisnull.
IsConstantFalse_value_only(c) == ~DatumGetBool(c.addr)

\* The test of line 1444.  DatumGetBool is handed c, the pointer to the
\* Const node, not c->constvalue.
IsConstantFalse(c) == c.constisnull \/ ~DatumGetBool(c.addr)

\* The foreach loop; i is the 1-based position of lc.  x.seen lists the
\* results of estimate_expression_value in call order.
RECURSIVE ConstifyLoop(_, _, _)
ConstifyLoop(p, x, i) ==
  IF i > Len(x.cs.vectorized_quals_original) THEN x
  ELSE
    LET constified == estimate_expression_value(x.cs.vectorized_quals_original[i])
        seen == Append(x.seen, constified)
    IN  IF constified.tag = "Const"
        THEN IF IsConstantFalse(constified)
             THEN [x EXCEPT !.cs.have_constant_false_vectorized_qual = TRUE,
                            !.seen = seen]
             ELSE IF p.assert_checking
             THEN [x EXCEPT !.seen = seen, !.err = "assertion failed"]
             ELSE ConstifyLoop(p, [x EXCEPT !.seen = seen], i + 1)
        ELSE IF ~constified.arg_is_const
        THEN [x EXCEPT !.seen = seen,
                !.err = "failed to evaluate runtime constant in vectorized filter"]
        ELSE ConstifyLoop(p,
               [x EXCEPT !.seen = seen,
                         !.cs.vectorized_quals_constified = Append(@, constified)],
               i + 1)

(***************************************************************************)
(* The size of the memory context of a batch, lines 1357-1394, on a build  *)
(* with pointers and uint64 of 8 bytes.                                    *)
(***************************************************************************)
ALLOCSET_DEFAULT_INITSIZE == 8192

\* sizeof(ArrowArray): five int64 and five pointers.
SizeofArrowArray == 80

SizeofPointer == 8

\* What one column adds.
ColumnBytes(column) ==
  IF column.bulk_decompression_supported
  THEN (MaxRowsPerBatch + 64) * column.value_bytes
         + MaxRowsPerBatch \div (64 * 8)
         + (SizeofArrowArray + SizeofPointer * 2)
         + SizeofPointer * 3
  ELSE 0

RECURSIVE SumColumnBytes(_, _)
SumColumnBytes(columns, i) ==
  IF i > Len(columns) THEN 0
  ELSE ColumnBytes(columns[i]) + SumColumnBytes(columns, i + 1)

Min(a, b) == IF a < b THEN a ELSE b

batch_memory_context_bytes(cs) ==
  LET start == ALLOCSET_DEFAULT_INITSIZE
                 + (IF cs.enable_bulk_decompression
                    THEN SumColumnBytes(cs.template_columns, 1) ELSE 0)
  IN  Min(((start + 4095) \div 4096) * 4096, 1 * 1024 * 1024)

(***************************************************************************)
(* constify_tableoid: the target list the node projects, with the Vars of  *)
(* tableoid of the chunk replaced by the relation id of the chunk.  A node *)
(* of a target list has a tag, for a Var the range table index and the     *)
(* attribute number, for a Const its value, and arguments.                 *)
(***************************************************************************)
SelfItemPointerAttributeNumber == -1

TableOidAttributeNumber == -6

TlistNode(tag, varno, varattno, constvalue, args) ==
  [tag |-> tag, varno |-> varno, varattno |-> varattno,
   constvalue |-> constvalue, args |-> args]

\* Lines 1109-1140: the error the walker raises in a node, "" for none.
RECURSIVE constify_tableoid_walker_error(_, _)
constify_tableoid_walker_error(node, ctx) ==
  IF node.tag = "Var"
  THEN IF node.varno # ctx.chunk_index THEN ""
       ELSE IF node.varattno = TableOidAttributeNumber THEN ""
       ELSE IF node.varattno < SelfItemPointerAttributeNumber
       THEN "transparent decompression only supports tableoid system column"
       ELSE ""
  ELSE IF \E i \in 1..Len(node.args) :
            constify_tableoid_walker_error(node.args[i], ctx) # ""
  THEN "transparent decompression only supports tableoid system column"
  ELSE ""

\* made_changes after the walk of a node.
RECURSIVE constify_tableoid_made_changes(_, _)
constify_tableoid_made_changes(node, ctx) ==
  IF node.tag = "Var"
  THEN node.varno = ctx.chunk_index /\ node.varattno = TableOidAttributeNumber
  ELSE \E i \in 1..Len(node.args) :
         constify_tableoid_made_changes(node.args[i], ctx)

\* The node the walker returns.
RECURSIVE constify_tableoid_walker(_, _)
constify_tableoid_walker(node, ctx) ==
  IF node.tag = "Var"
  THEN IF node.varno # ctx.chunk_index THEN node
       ELSE IF node.varattno = TableOidAttributeNumber
       THEN TlistNode("Const", 0, 0, ctx.chunk_relid, <<>>)
       ELSE node
  ELSE [node EXCEPT
          !.args = [i \in 1..Len(node.args) |->
                      constify_tableoid_walker(node.args[i], ctx)]]

\* Lines 1142-1158.  same says that the list returned is the list given
\* (the pointer comparison of line 1210).
constify_tableoid(tlist, chunk_index, chunk_relid) ==
  LET ctx == [chunk_index |-> chunk_index, chunk_relid |-> chunk_relid]
      made_changes == \E i \in 1..Len(tlist) :
                        constify_tableoid_made_changes(tlist[i], ctx)
  IN  [err |-> IF \E i \in 1..Len(tlist) :
                    constify_tableoid_walker_error(tlist[i], ctx) # ""
               THEN "transparent decompression only supports tableoid system column"
               ELSE "",
       same |-> ~made_changes,
       tlist |-> IF made_changes
                 THEN [i \in 1..Len(tlist) |->
                         constify_tableoid_walker(tlist[i], ctx)]
                 ELSE tlist]

\* Lines 1194-1219: the projection of the node after the constification.
ConstifyProjection(p, cs) ==
  IF ~cs.ps_ProjInfo THEN [cs |-> cs, err |-> ""]
  ELSE LET m == constify_tableoid(p.targetlist, p.scanrelid, cs.chunk_relid)
       IN  IF m.err # "" THEN [cs |-> cs, err |-> m.err]
           ELSE IF ~m.same
           THEN [cs |-> [cs EXCEPT !.projection_targetlist = m.tlist,
                                   !.projection_builds = @ + 1],
                 err |-> ""]
           ELSE [cs |-> cs, err |-> ""]

(***************************************************************************)
(* decompress_chunk_begin.  p gives what the node reads besides its state: *)
(* the debug setting and whether the build checks assertions.              *)
(***************************************************************************)
decompress_chunk_begin(p, cs00) ==
  LET proj == ConstifyProjection(p, cs00)
      cs0 == proj.cs
      cs1 == build_batch_sorted_merge_info(cs0)
      t == BuildTemplateColumns(cs1)
      cs2 == [t.cs EXCEPT
                !.batch_memory_context_bytes = batch_memory_context_bytes(t.cs),
                !.batch_queue =
                  IF t.cs.batch_sorted_merge THEN "heap" ELSE "fifo"]
      cs3 == IF cs2.batch_queue = "heap" THEN batch_queue_heap_create(cs2)
             ELSE batch_queue_fifo_create(cs2)
      cs4 == [cs3 EXCEPT !.have_constant_false_vectorized_qual = FALSE]
  IN  IF proj.err # "" THEN [cs |-> cs00, seen |-> <<>>, err |-> proj.err]
      ELSE IF t.err # "" THEN [cs |-> t.cs, seen |-> <<>>, err |-> t.err]
      ELSE IF p.debug_require_batch_sorted_merge /\ ~cs3.batch_sorted_merge
      THEN [cs |-> cs3, seen |-> <<>>,
            err |-> "debug: batch sorted merge is required but not used"]
      ELSE ConstifyLoop(p, [cs |-> cs4, seen |-> <<>>, err |-> ""], 1)

(***************************************************************************)
(* Vectorized aggregation: perform_vectorized_sum_int4.                    *)
(***************************************************************************)
\* Bit i (0-based) of the validity bitmap: 1 when row i is not null.
arrow_row_is_valid(bitmap, i) == bitmap[i + 1] = 1

\* pg_add_s64_overflow: the int64 sum, or the report that it does not fit.
pg_add_s64_overflow(a, b) ==
  LET r == WAdd(a, b)
  IN  [overflow |-> ~WInInt64(r), result |-> r]

\* A variant that multiplies in 32 bits.
pg_mul_s32_overflow(intvalue, amount) ==
  [overflow |-> ~WInInt32(WMul32(intvalue, amount)),
   result |-> WMul32(intvalue, amount)]

\* pg_mul_s64_overflow on the two int32 operands, widened to int64 by the
\* call.
pg_mul_s64_overflow(intvalue, amount) ==
  LET r == WMul32(intvalue, amount)
  IN  [overflow |-> ~WInInt64(r), result |-> r]

\* One pass of the for loop of lines 1626-1635: batch_sum += arrow_value
\* for a valid row.  The addition is an unchecked int64 addition; ub
\* records that it left int64.
SumArrowRow(values, validity, i, acc) ==
  IF arrow_row_is_valid(validity, i)
  THEN LET n == WAdd(acc.batch_sum, W(values[i + 1]))
       IN  IF WInInt64(n) THEN [acc EXCEPT !.batch_sum = n]
           ELSE [batch_sum |-> WWrap64(n), ub |-> TRUE]
  ELSE acc

\* The for loop over rows i .. to - 1, left to right: the rows of the
\* first half of the range, then those of the second half with the sum the
\* first half left.  An overflow ends the walk.
RECURSIVE SumArrowLoop(_, _, _, _, _)
SumArrowLoop(values, validity, i, to, acc) ==
  IF i >= to \/ acc.ub THEN acc
  ELSE IF to - i = 1 THEN SumArrowRow(values, validity, i, acc)
  ELSE SumArrowLoop(values, validity, (i + to) \div 2, to,
         SumArrowLoop(values, validity, i, (i + to) \div 2, acc))

\* The running state of the aggregation: result_sum, tts_isnull[0] of the
\* result slot, the error raised, and whether an unchecked addition
\* overflowed.
AggStart == [result_sum |-> W(0), isnull |-> TRUE, err |-> "", ub |-> FALSE]

\* The body of the while loop for a segmentby column (lines 1533-1568).
\* A variant that adds without the check and lets the sum wrap.
AddBatchSum_unchecked(x, add, ub) ==
  [x EXCEPT !.isnull = FALSE, !.ub = ub, !.result_sum = WWrap64(add.result)]

\* Lines 1563-1567 and 1637-1640: add the batch's sum to result_sum.
AddBatchSum(x, add, ub) ==
  IF add.overflow
  THEN [x EXCEPT !.isnull = FALSE, !.ub = ub, !.err = "bigint out of range"]
  ELSE [x EXCEPT !.isnull = FALSE, !.ub = ub, !.result_sum = add.result]

\* Lines 1555-1567, given the product of value and count.
AddSegmentbyProduct(x, mul) ==
  IF mul.overflow
  THEN [x EXCEPT !.isnull = FALSE, !.err = "bigint out of range"]
  ELSE AddBatchSum(x, pg_add_s64_overflow(x.result_sum, mul.result), x.ub)

\* A variant that adds the value once, whatever the count.
sum_int4_segmentby_batch_once(x, value, elements) ==
  IF ~value.isnull /\ ~elements.isnull
  THEN AddSegmentbyProduct(x, pg_mul_s64_overflow(value.val, 1))
  ELSE x

sum_int4_segmentby_batch(x, value, elements) ==
  IF ~value.isnull /\ ~elements.isnull
  THEN AddSegmentbyProduct(x, pg_mul_s64_overflow(value.val, elements.val))
  ELSE x

\* Lines 1625-1640, given what the for loop left in batch_sum.
AddCompressedSum(x, b) ==
  AddBatchSum(x, pg_add_s64_overflow(x.result_sum, b.batch_sum), b.ub)

\* A variant that adds every row, valid or not.
sum_int4_compressed_batch_all_rows(x, value) ==
  IF value.isnull
  THEN [x EXCEPT !.err =
          "got unexpected NULL attribute value from compressed batch"]
  ELSE AddCompressedSum(x,
         SumArrowLoop(value.values, [i \in 1..Len(value.values) |-> 1], 0,
                      Len(value.values), [batch_sum |-> W(0), ub |-> FALSE]))

\* The body of the while loop for a compressed column (lines 1587-1640).
sum_int4_compressed_batch(x, value) ==
  IF value.isnull
  THEN [x EXCEPT !.err =
          "got unexpected NULL attribute value from compressed batch"]
  ELSE AddCompressedSum(x,
         SumArrowLoop(value.values, value.validity, 0, Len(value.values),
                      [batch_sum |-> W(0), ub |-> FALSE]))

\* The while (true) loop: one ExecProcNode per pass, until the child is
\* exhausted or an error is raised.
\* One pass of the while loop on the tuple the child returned.
sum_int4_batch(cs, x, slot) ==
  IF cs.template_columns[1].type = "SEGMENTBY_COLUMN"
  THEN sum_int4_segmentby_batch(x,
         slot[cs.template_columns[1].compressed_scan_attno],
         slot[cs.template_columns[2].compressed_scan_attno])
  ELSE sum_int4_compressed_batch(x,
         slot[cs.template_columns[1].compressed_scan_attno])

RECURSIVE sum_int4_loop(_, _, _, _)
sum_int4_loop(cs, x, calls, pos) ==
  IF x.err # "" THEN [x |-> x, pos |-> pos, calls |-> calls]
  ELSE IF pos > Len(child) THEN [x |-> x, pos |-> pos, calls |-> calls + 1]
  ELSE sum_int4_loop(cs, sum_int4_batch(cs, x, child[pos].tuple),
                     calls + 1, pos + 1)

\* What one call of exec leaves behind: the node state, the child's
\* position, the ExecProcNode calls it made, what it returned, and the
\* most batch states in use during the call (open) and at a call of the
\* child (pull_open).
ExecOut(cs, pos, calls, res, open, pull_open) ==
  [cs |-> cs, pos |-> pos, calls |-> calls, result |-> res,
   open |-> open, pull_open |-> pull_open]

UsedCount(cs) == n_batch_states(cs) - Cardinality(unused_batch_states(cs))

Max(a, b) == IF a > b THEN a ELSE b

\* A variant that leaves the batch state unused.
TakeBatchState_skipped(cs) == cs

\* Lines 1486-1491: the free batch state is taken.
TakeBatchState(cs) == batch_array_set(cs, batch_array_get_free_slot(cs), 0, 0)

\* Lines 1648-1652: the result slot, or the error raised in the loop.
SumInt4Return(cs, l) ==
  ExecOut(cs, l.pos, l.calls,
          IF l.x.err # "" THEN ErrResult(l.x.err)
          ELSE AggResult(l.x.isnull, l.x.result_sum),
          1, 1)

perform_vectorized_sum_int4(cs, pos) ==
  IF cs.template_columns[1].type \notin {"SEGMENTBY_COLUMN", "COMPRESSED_COLUMN"}
  THEN ExecOut(TakeBatchState(cs), pos, 0,
               ErrResult("unsupported column type"), 1, 0)
  ELSE SumInt4Return(TakeBatchState(cs),
                     sum_int4_loop(TakeBatchState(cs), AggStart, 0, pos))

\* A variant that takes every function for sum(int4).
perform_vectorized_aggregation_any_function(cs, pos) ==
  IF Cardinality(unused_batch_states(cs)) # n_batch_states(cs)
  THEN ExecOut(cs, pos, 0, EosResult, UsedCount(cs), 0)
  ELSE perform_vectorized_sum_int4(cs, pos)

\* Lines 1662-1699: the end of the stream when the batch state is in use,
\* else the switch over the aggregate function.
perform_vectorized_aggregation(cs, pos) ==
  IF Cardinality(unused_batch_states(cs)) # n_batch_states(cs)
  THEN ExecOut(cs, pos, 0, EosResult, UsedCount(cs), 0)
  ELSE IF cs.aggfnoid = "F_SUM_INT4"
  THEN perform_vectorized_sum_int4(cs, pos)
  ELSE ExecOut(cs, pos, 0,
               ErrResult("vectorized aggregation for function is not supported"),
               0, 0)

\* The while loop of lines 1722-1732.
RECURSIVE PullLoop(_)
PullLoop(x) ==
  IF ~queue_needs_next_batch(x.cs, x.pos) THEN x
  ELSE
    LET pull_open == Max(x.pull_open, UsedCount(x.cs))
    IN  IF x.pos > Len(child)
        THEN [x EXCEPT !.calls = @ + 1, !.pull_open = pull_open]
        ELSE LET cs1 == queue_push_batch(x.cs, x.pos)
             IN  PullLoop(ExecOut(cs1, x.pos + 1, x.calls + 1, x.result,
                                  Max(x.open, UsedCount(cs1)), pull_open))

\* A variant that feeds the queue before it pops.
ExecRow_pop_late(cs, pos) ==
  LET l == PullLoop(ExecOut(cs, pos, 0, NoResult, UsedCount(cs), 0))
      popped == queue_pop(l.cs)
  IN  [l EXCEPT !.cs = popped, !.result = queue_top_tuple(popped)]

\* Lines 1721-1747: pop, feed the queue, peek.
ExecRow(cs, pos) ==
  LET popped == queue_pop(cs)
      l == PullLoop(ExecOut(popped, pos, 0, NoResult, UsedCount(cs), 0))
  IN  [l EXCEPT !.result = queue_top_tuple(l.cs)]

decompress_chunk_exec_impl(cs, pos) ==
  IF cs.perform_vectorized_aggregation
  THEN perform_vectorized_aggregation(cs, pos)
  ELSE IF cs.have_constant_false_vectorized_qual
  THEN ExecOut(cs, pos, 0, EosResult, UsedCount(cs), 0)
  ELSE ExecRow(cs, pos)

\* A variant that leaves the queue and the batch states as they are.
decompress_chunk_rescan_keep(cs) == cs

\* A variant that resets the queue and frees no batch state.
decompress_chunk_rescan_queue_only(cs) == queue_reset(cs)

decompress_chunk_rescan(cs) ==
  LET r == queue_reset(cs)
  IN  [r EXCEPT !.batch_states = [s \in 1..Len(r.batch_states) |-> FreeSlot]]

(***************************************************************************)
(* The operations of the node.                                             *)
(***************************************************************************)
MaxEosExecs == 2       \* calls of exec that return the end of the stream

AuxStart == [open |-> 0, pull_open |-> 0, seen |-> <<>>, eos_execs |-> 0]

\* The state after open, given what decompress_chunk_begin did.
Opened(b) ==
  /\ chunk_state' = b.cs
  /\ phase' = IF b.err = "" THEN "open" ELSE "error"
  /\ result' = IF b.err = "" THEN result ELSE ErrResult(b.err)
  /\ aux' = [aux EXCEPT !.seen = b.seen]

Begin ==
  /\ phase = "created"
  /\ Opened(decompress_chunk_begin(plan, chunk_state))
  /\ UNCHANGED <<plan, child, child_pos, child_calls, output, rescans,
                 fn_in, fn_out>>

\* The state after a call of exec, given what it did.
Returned(e) ==
  /\ chunk_state' = e.cs
  /\ child_pos' = e.pos
  /\ child_calls' = child_calls + e.calls
  /\ result' = e.result
  /\ phase' = IF e.result.kind = "error" THEN "error" ELSE "open"
  /\ output' = IF e.result.kind \in {"row", "agg"}
               THEN Append(output, e.result) ELSE output
  /\ aux' = [aux EXCEPT
               !.open = Max(@, e.open),
               !.pull_open = Max(@, e.pull_open),
               !.eos_execs = IF e.result.kind = "eos" THEN @ + 1 ELSE @]

Exec ==
  /\ phase = "open"
  /\ aux.eos_execs < MaxEosExecs
  /\ Returned(decompress_chunk_exec_impl(chunk_state, child_pos))
  /\ UNCHANGED <<plan, child, rescans, fn_in, fn_out>>

ReScan ==
  /\ phase = "open"
  /\ rescans < MaxRescans
  /\ chunk_state' = decompress_chunk_rescan(chunk_state)
  /\ child_pos' = 1
  /\ child_calls' = 0
  /\ result' = NoResult
  /\ output' = <<>>
  /\ rescans' = rescans + 1
  /\ aux' = [aux EXCEPT !.eos_execs = 0]
  /\ UNCHANGED <<plan, child, phase, fn_in, fn_out>>

Next == Begin \/ Exec \/ ReScan

(***************************************************************************)
(* Plans and children.  The child's target list is (the column of the      *)
(* query, the count metadata column).                                      *)
(***************************************************************************)
SeqsUpTo(S, n) == UNION {[1..k -> S] : k \in 1..n}

ListsUpTo(S, n) == UNION {[1..k -> S] : k \in 0..n}

AllPass(ks) == [i \in 1..Len(ks) |-> TRUE]

\* get_typlen of the columns of the scan tuple of the chunk, by attribute
\* number: time is of 8 bytes, device of 4, note of variable length.
ChunkTypLen == <<8, 4, -1>>

PlanRow ==
  [decompression_map |-> <<1, DECOMPRESS_CHUNK_COUNT_ID>>,
   is_segmentby_column |-> <<FALSE, FALSE>>,
   bulk_decompression_column |-> <<TRUE, FALSE>>,
   vectorized_aggregation_column |-> <<>>,
   desc |-> ChunkTypLen,
   sortinfo |-> <<>>,
   aggfnoid |-> "none",
   reverse |-> FALSE,
   batch_sorted_merge |-> FALSE,
   enable_bulk_decompression |-> TRUE,
   perform_vectorized_aggregation |-> FALSE,
   vectorized_quals_original |-> <<>>,
   scanrelid |-> 1,
   chunk_relid |-> 16400,
   targetlist |-> <<>>,
   ps_ProjInfo |-> FALSE,
   debug_require_batch_sorted_merge |-> FALSE,
   assert_checking |-> FALSE]

\* A qual that constification leaves a comparison with a constant.
PlainQual == [strict |-> TRUE, arg |-> "const", folds |-> "none"]

\* Batch sorted merge: one sort key on output column 1; no bulk
\* decompression, hence no vectorized quals (planner, lines 866-885).
PlanHeap(op, required) ==
  [PlanRow EXCEPT
     !.sortinfo = << <<1>>, <<op>>, <<0>>, <<FALSE>> >>,
     !.batch_sorted_merge = TRUE,
     !.reverse = (op = ">"),
     !.enable_bulk_decompression = FALSE,
     !.debug_require_batch_sorted_merge = required]

PlansHeap == {PlanHeap(op, r) : op \in {"<", ">"}, r \in BOOLEAN}

InOrder(op, a, b) == IF op = "<" THEN a <= b ELSE a >= b

\* The rows of a batch are in the order of the sort key, and the child
\* yields the batches in the order of the min (max) metadata column.
BatchesHeap(op) ==
  {RowBatch(ks, AllPass(ks)) :
     ks \in {s \in SeqsUpTo(1..KeyMax, MaxRows) :
               \A i \in 1..(Len(s) - 1) : InOrder(op, s[i], s[i + 1])}}

MetaOf(op, b) == IF op = "<" THEN b.min ELSE b.max

ChildrenHeap(op) ==
  {c \in ListsUpTo(BatchesHeap(op), MaxBatches) :
     \A i \in 1..(Len(c) - 1) :
       InOrder(op, MetaOf(op, c[i]), MetaOf(op, c[i + 1]))}

\* Two overlapping batches with the rows 1,4,7 and 2,3,8.
ExampleMerge ==
  << RowBatch(<<1, 4, 7>>, <<TRUE, TRUE, TRUE>>),
     RowBatch(<<2, 3, 8>>, <<TRUE, TRUE, TRUE>>) >>

PlansFifo ==
  {[PlanRow EXCEPT !.vectorized_quals_original = q,
                   !.debug_require_batch_sorted_merge = r] :
     q \in {<<>>, <<PlainQual>>}, r \in BOOLEAN}

\* Without sorted merge the order of the rows is the batch's own; the key
\* plays no part.
BatchesFifo ==
  {RowBatch([i \in 1..Len(ps) |-> 1], ps) : ps \in SeqsUpTo(BOOLEAN, MaxRows)}

ChildrenFifo(p) ==
  {c \in ListsUpTo(BatchesFifo, MaxBatches) :
     p.vectorized_quals_original = <<>> =>
       \A i \in 1..Len(c) : \A j \in 1..Len(c[i].pass) : c[i].pass[j]}

InitNode(p, c) ==
  /\ fn_in = <<>>
  /\ fn_out = <<>>
  /\ plan = p
  /\ child = c
  /\ child_pos = 1
  /\ child_calls = 0
  /\ chunk_state = decompress_chunk_state_create(p)
  /\ phase = "created"
  /\ result = NoResult
  /\ output = <<>>
  /\ rescans = 0
  /\ aux = AuxStart

InitHeap ==
  \E p \in PlansHeap :
    \E c \in ChildrenHeap(p.sortinfo[2][1]) \cup
             (IF p.sortinfo[2][1] = "<" THEN {ExampleMerge} ELSE {}) :
      InitNode(p, c)

InitFifo == \E p \in PlansFifo : \E c \in ChildrenFifo(p) : InitNode(p, c)

SpecHeap == InitHeap /\ [][Next]_vars

SpecFifo == InitFifo /\ [][Next]_vars

(***************************************************************************)
(* Properties of the row mode.                                             *)
(***************************************************************************)
HeapMode == phase = "open" /\ chunk_state.batch_queue = "heap"

FifoMode ==
  /\ phase = "open"
  /\ chunk_state.batch_queue = "fifo"
  /\ ~chunk_state.perform_vectorized_aggregation
  /\ ~chunk_state.have_constant_false_vectorized_qual

\* The rows of the child that pass the quals.
AllRows ==
  UNION {{[b |-> b, i |-> i, key |-> child[b].keys[i]] :
            i \in {k \in 1..Len(child[b].keys) : child[b].pass[k]}} :
         b \in 1..Len(child)}

\* The order the plan asks for: a sorts strictly before b.
PlanSortsBefore(a, b) == IF plan.sortinfo[2][1] = "<" THEN a < b ELSE a > b

\* The same rows in the order of the batches and, within a batch, of its
\* rows.
RECURSIVE RowsFrom(_, _)
RowsFrom(b, i) ==
  IF b > Len(child) THEN <<>>
  ELSE IF i > Len(child[b].keys) THEN RowsFrom(b + 1, 1)
  ELSE IF child[b].pass[i]
  THEN <<[b |-> b, i |-> i, key |-> child[b].keys[i]]>> \o RowsFrom(b, i + 1)
  ELSE RowsFrom(b, i + 1)

OutputRows == [i \in 1..Len(output) |-> output[i].row]

\* C1: with the heap queue the rows come out in the order of the sort key
\* (no row sorts before an earlier one), rows of equal key come out in the
\* order of their batches, and at the end of the stream every row of the
\* child has come out exactly once.
C1_SortedMerge ==
  HeapMode =>
    /\ \A i, j \in 1..Len(output) :
         i < j =>
           /\ ~PlanSortsBefore(output[j].row.key, output[i].row.key)
           /\ output[i].row.key = output[j].row.key =>
                \/ output[i].row.b < output[j].row.b
                \/ /\ output[i].row.b = output[j].row.b
                   /\ output[i].row.i < output[j].row.i
    /\ result.kind = "eos" =>
         /\ {output[i].row : i \in 1..Len(output)} = AllRows
         /\ Len(output) = Cardinality(AllRows)

\* The batches 1,4,7 and 2,3,8 have been merged into 1,2,3,4,7,8.
C1_Witness ==
  /\ HeapMode
  /\ child = ExampleMerge
  /\ result.kind = "eos"
  /\ [i \in 1..Len(output) |-> output[i].row.key] = <<1, 2, 3, 4, 7, 8>>

\* C2: whenever exec returns the row at the root of the heap, no batch the
\* child has not yet yielded has a min (ascending; max for descending) that
\* sorts strictly before the leading value of that row.
C2_HeapInvariant ==
  (HeapMode /\ result.kind = "row") =>
    \A j \in child_pos..Len(child) :
      ~PlanSortsBefore(MetaOf(plan.sortinfo[2][1], child[j]), result.row.key)

\* A row was returned while the child still had a batch to yield, one that
\* starts after that row.
C2_Witness ==
  /\ HeapMode
  /\ result.kind = "row"
  /\ child_pos <= Len(child)
  /\ PlanSortsBefore(result.row.key,
                     MetaOf(plan.sortinfo[2][1], child[child_pos]))

\* C3: with the FIFO queue the rows that pass come out in the order of the
\* batches and of the rows within a batch, each once; no more than one
\* batch state is ever in use, and the child is asked for a batch only
\* while none is.
C3_FifoOrder ==
  FifoMode =>
    /\ Len(output) <= Len(RowsFrom(1, 1))
    /\ OutputRows = SubSeq(RowsFrom(1, 1), 1, Len(output))
    /\ result.kind = "eos" => Len(output) = Len(RowsFrom(1, 1))
    /\ result.kind = "row" => result.row = output[Len(output)].row
    /\ aux.open <= 1
    /\ aux.pull_open = 0

\* After a rescan, two batches with a filtered row were emitted to the end.
C3_Witness ==
  /\ FifoMode
  /\ rescans = 1
  /\ result.kind = "eos"
  /\ Len(child) = 2
  /\ Len(output) >= 2
  /\ Len(output) < Len(child[1].keys) + Len(child[2].keys)
  /\ output[Len(output)].row.b = 2

(***************************************************************************)
(* Aggregation mode: the child's target list is (the aggregated column,    *)
(* the count metadata column).                                             *)
(***************************************************************************)
PlanAgg(seg, fn) ==
  [PlanRow EXCEPT
     !.is_segmentby_column = <<seg, FALSE>>,
     !.bulk_decompression_column = <<~seg, FALSE>>,
     !.vectorized_aggregation_column = <<"INT4OID", "-1">>,
     !.aggfnoid = fn,
     !.perform_vectorized_aggregation = TRUE]

\* The aggregate functions a plan may carry: the one case of the switch of
\* lines 1688-1698 and functions that take its default branch.
AggFunctions == {"F_SUM_INT4", "F_SUM_FLOAT4", "F_SUM_FLOAT8", "F_MIN_INT4"}

PlansAgg == {PlanAgg(seg, fn) : seg \in BOOLEAN, fn \in AggFunctions}

AggValues == {-1, INT32_MAX}

AggCounts == {2, 1000}

BatchesSegmentby ==
  {AggBatch(<<v, c>>) :
     v \in {NullDatum} \cup {ScalarDatum(x) : x \in AggValues},
     c \in {NullDatum} \cup {ScalarDatum(n) : n \in AggCounts}}

BatchesCompressed ==
  {AggBatch(<<NullDatum, ScalarDatum(1)>>)} \cup
  UNION {{AggBatch(<<BlobDatum(vals, bits), ScalarDatum(Len(vals))>>) :
            bits \in [1..Len(vals) -> {0, 1}]} :
         vals \in SeqsUpTo(AggValues, MaxAggRows)}

\* Segment "a" with the values 10,20,30 and segment "b" with 100,100.
ExampleSum260 ==
  << AggBatch(<<BlobDatum(<<10, 20, 30>>, <<1, 1, 1>>), ScalarDatum(3)>>),
     AggBatch(<<BlobDatum(<<100, 100>>, <<1, 1>>), ScalarDatum(2)>>) >>

\* The values 1..5 under the validity bitmap 0b10110 (bit 0 first).
ExampleBitmap ==
  << AggBatch(<<BlobDatum(<<1, 2, 3, 4, 5>>, <<0, 1, 1, 0, 1>>),
                ScalarDatum(5)>>) >>

ExampleSegmentby3000 == << AggBatch(<<ScalarDatum(3), ScalarDatum(1000)>>) >>

ExampleSegmentbyMax == << AggBatch(<<ScalarDatum(INT32_MAX), ScalarDatum(2)>>) >>

ChildrenAgg(p) ==
  IF p.is_segmentby_column[1]
  THEN ListsUpTo(BatchesSegmentby, MaxAggBatches)
         \cup {ExampleSegmentby3000, ExampleSegmentbyMax}
  ELSE ListsUpTo(BatchesCompressed, MaxAggBatches)
         \cup {ExampleSum260, ExampleBitmap}

InitAgg == \E p \in PlansAgg : \E c \in ChildrenAgg(p) : InitNode(p, c)

SpecAgg == InitAgg /\ [][Next]_vars

(***************************************************************************)
(* Properties of the aggregation mode.                                     *)
(***************************************************************************)
\* exec has returned the aggregate tuple.
AggDone ==
  /\ chunk_state.perform_vectorized_aggregation
  /\ result.kind = "agg"

AggColumnType == chunk_state.template_columns[1].type

\* The sum of the values of a decompressed column whose validity bit is 1,
\* from row i on.
RECURSIVE SumValid(_, _, _)
SumValid(d, i, j) ==
  IF i > j THEN W(0)
  ELSE IF i = j THEN (IF d.validity[i] = 1 THEN W(d.values[i]) ELSE W(0))
  ELSE WAdd(SumValid(d, i, (i + j) \div 2),
            SumValid(d, ((i + j) \div 2) + 1, j))

RECURSIVE SumValidBatches(_)
SumValidBatches(b) ==
  IF b > Len(child) THEN W(0)
  ELSE WAdd(SumValid(child[b].tuple[1], 1, Len(child[b].tuple[1].values)),
            SumValidBatches(b + 1))

\* The batches of a segmentby column whose value and count are not null.
Contributing(b) == ~child[b].tuple[1].isnull /\ ~child[b].tuple[2].isnull

RECURSIVE SumProducts(_)
SumProducts(b) ==
  IF b > Len(child) THEN W(0)
  ELSE WAdd(IF Contributing(b)
            THEN WMul32(child[b].tuple[1].val, child[b].tuple[2].val)
            ELSE W(0),
            SumProducts(b + 1))

\* The not-null inputs the child holds for the aggregate.
Contributions ==
  IF AggColumnType = "SEGMENTBY_COLUMN"
  THEN {<<b, 0>> : b \in {k \in 1..Len(child) : Contributing(k)}}
  ELSE UNION {{<<b, i>> : i \in {k \in 1..Len(child[b].tuple[1].values) :
                                   child[b].tuple[1].validity[k] = 1}} :
              b \in 1..Len(child)}

\* C4: the sum over a compressed column is the sum of the values of all
\* batches whose validity bit is set (bit i is 1 when row i is not null).
C4_CompressedSum ==
  (AggDone /\ AggColumnType = "COMPRESSED_COLUMN") =>
    result.value = SumValidBatches(1)

\* The values 1..5 under the bitmap 0b10110 gave 10.
C4_Witness ==
  /\ AggDone
  /\ AggColumnType = "COMPRESSED_COLUMN"
  /\ child = ExampleBitmap
  /\ result.value = W(10)

\* C5: the aggregate is not null exactly when a not-null input value went
\* into it; over a column of nulls only, or over no batch, it is null.
C5_NullPropagation ==
  AggDone => (~result.isnull <=> Contributions # {})

\* C6: the sum over a segmentby column is the sum of value * count over the
\* batches where both are not null, and it is null exactly when there is no
\* such batch.
C6_SegmentbySum ==
  (AggDone /\ AggColumnType = "SEGMENTBY_COLUMN") =>
    /\ result.value = SumProducts(1)
    /\ result.isnull <=> Contributions = {}

\* Two batches with different values went into the sum.
C6_Witness ==
  /\ AggDone
  /\ AggColumnType = "SEGMENTBY_COLUMN"
  /\ Len(child) = 2
  /\ Contributing(1)
  /\ Contributing(2)
  /\ child[1].tuple[1].val # child[2].tuple[1].val

\* exec has run the aggregation over the only batch of the child to its
\* end: the aggregate tuple or an error.
SegmentbyRan(c) ==
  /\ child = c
  /\ chunk_state.perform_vectorized_aggregation
  /\ chunk_state.aggfnoid = "F_SUM_INT4"
  /\ result.kind \in {"agg", "error"}

\* C7 as stated: value 3 with count 1000 gives 3000, and value INT32_MAX
\* with count 2 raises the numeric range error.
C7_AsStated ==
  /\ SegmentbyRan(ExampleSegmentby3000) =>
       result.kind = "agg" /\ result.value = W(3000)
  /\ SegmentbyRan(ExampleSegmentbyMax) =>
       result.kind = "error" /\ result.err = "bigint out of range"

\* C7: value 3 with count 1000 gives 3000; value INT32_MAX with count 2
\* gives 4294967294 and no error, for the product is taken in 64 bits; over
\* a single batch with a value and a count the sum is their product.
C7_SegmentbyProduct ==
  /\ SegmentbyRan(ExampleSegmentby3000) =>
       result.kind = "agg" /\ result.value = W(3000)
  /\ SegmentbyRan(ExampleSegmentbyMax) =>
       /\ result.kind = "agg"
       /\ ~result.isnull
       /\ result.value = <<0, 3, Limb - 2>>
  /\ \A v \in AggValues, c \in AggCounts :
       SegmentbyRan(<<AggBatch(<<ScalarDatum(v), ScalarDatum(c)>>)>>) =>
         result.kind = "agg" /\ result.value = WMul32(v, c)

\* The sum of INT32_MAX with count 2 was returned.
C7_Witness ==
  /\ SegmentbyRan(ExampleSegmentbyMax)
  /\ result.kind = "agg"
  /\ result.value = <<0, 3, Limb - 2>>

(***************************************************************************)
(* One pass of the aggregation loop as a function of the running total     *)
(* and of the tuple the child returned.                                    *)
(***************************************************************************)
INT64_MAX == <<7, Limb - 1, Limb - 1>>

INT64_MIN == <<-8, 0, 0>>

Repeat(v, n) == [i \in 1..n |-> v]

Totals ==
  {W(0), W(-7), INT64_MAX, <<7, Limb - 1, 0>>, <<7, Limb - 2048, 0>>,
   <<6, 0, 0>>, INT64_MIN, <<-8, 0, 5>>, <<-8, 2048, 0>>, <<-7, 0, 0>>}

StepValues == {INT32_MIN, -1, 3, INT32_MAX}

StepTuples(column) ==
  IF column = "SEGMENTBY_COLUMN"
  THEN {<<v, c>> :
          v \in {NullDatum} \cup {ScalarDatum(x) : x \in StepValues},
          c \in {NullDatum} \cup {ScalarDatum(n) : n \in {1, 2, 1000}}}
  ELSE {<<BlobDatum(Repeat(v, n), Repeat(bit, n)), ScalarDatum(n)>> :
          v \in StepValues, n \in {1, 2, MaxRowsPerBatch}, bit \in {0, 1}}
       \cup {ExampleBitmap[1].tuple}

InitSumStep ==
  /\ \E column \in {"SEGMENTBY_COLUMN", "COMPRESSED_COLUMN"} :
       \E total \in Totals : \E slot \in StepTuples(column) :
         fn_in = [column |-> column, result_sum |-> total, slot |-> slot]
  /\ fn_out = <<>>
  /\ plan = PlanAgg(fn_in.column = "SEGMENTBY_COLUMN", "F_SUM_INT4")
  /\ child = <<>>
  /\ child_pos = 1
  /\ child_calls = 0
  /\ chunk_state = decompress_chunk_state_create(plan)
  /\ phase = "created"
  /\ result = NoResult
  /\ output = <<>>
  /\ rescans = 0
  /\ aux = AuxStart

SumStep ==
  /\ fn_in # <<>>
  /\ fn_out = <<>>
  /\ fn_out' =
       IF fn_in.column = "SEGMENTBY_COLUMN"
       THEN sum_int4_segmentby_batch(
              [AggStart EXCEPT !.result_sum = fn_in.result_sum],
              fn_in.slot[1], fn_in.slot[2])
       ELSE sum_int4_compressed_batch(
              [AggStart EXCEPT !.result_sum = fn_in.result_sum], fn_in.slot[1])
  /\ UNCHANGED <<plan, child, child_pos, child_calls, chunk_state, phase,
                 result, output, rescans, aux, fn_in>>

SpecSumStep == InitSumStep /\ [][SumStep]_vars

\* What the pass adds to the running total.
StepAddend ==
  IF fn_in.column = "SEGMENTBY_COLUMN"
  THEN WMul32(fn_in.slot[1].val, fn_in.slot[2].val)
  ELSE SumValid(fn_in.slot[1], 1, Len(fn_in.slot[1].values))

\* The pass has something to add.
StepAdds ==
  /\ fn_out # <<>>
  /\ ~fn_in.slot[1].isnull
  /\ fn_in.column = "SEGMENTBY_COLUMN" => ~fn_in.slot[2].isnull

\* C8: over a batch of at most 1024 rows the batch's own int64 sum never
\* overflows; when the running total plus the batch's sum leaves int64 the
\* numeric range error is raised, and otherwise the exact total is kept: a
\* wrapped total is never returned.
C8_TotalOverflow ==
  StepAdds =>
    /\ ~fn_out.ub
    /\ IF WInInt64(WAdd(fn_in.result_sum, StepAddend))
       THEN /\ fn_out.err = ""
            /\ fn_out.result_sum = WAdd(fn_in.result_sum, StepAddend)
       ELSE fn_out.err = "bigint out of range"

\* A batch of 1024 rows pushed the total over the end of int64.
C8_Witness ==
  /\ StepAdds
  /\ fn_in.column = "COMPRESSED_COLUMN"
  /\ Len(fn_in.slot[1].values) = MaxRowsPerBatch
  /\ fn_in.slot[1].validity[1] = 1
  /\ fn_in.result_sum # INT64_MAX
  /\ fn_out.err = "bigint out of range"

(***************************************************************************)
(* Plans with vectorized quals of every kind, in row mode without sorted   *)
(* merge, for either build.                                                *)
(***************************************************************************)
QualKinds ==
  {[strict |-> st, arg |-> a, folds |-> "none"] :
     st \in BOOLEAN, a \in {"const", "null", "param"}}
  \cup {[strict |-> TRUE, arg |-> "const", folds |-> f] : f \in {"false", "true"}}

PlansQual ==
  {[PlanRow EXCEPT !.vectorized_quals_original = q, !.assert_checking = a] :
     q \in ListsUpTo(QualKinds, MaxQuals), a \in BOOLEAN}

InitQual ==
  \E p \in PlansQual :
    \E c \in {x \in ChildrenFifo(p) : Len(x) <= 1} : InitNode(p, c)

SpecQual == InitQual /\ [][Next]_vars

\* The node is open in row mode.
RowModeOpen ==
  /\ phase = "open"
  /\ ~chunk_state.perform_vectorized_aggregation

\* No row has come out and the child has not been called.
NothingEmitted ==
  /\ chunk_state.have_constant_false_vectorized_qual
  /\ output = <<>>
  /\ child_calls = 0
  /\ child_pos = 1
  /\ result.kind \in {"none", "eos"}

IsFalseConst(c) == c.tag = "Const" /\ ~c.constisnull /\ c.constvalue = 0

IsNullConst(c) == c.tag = "Const" /\ c.constisnull

\* C9: when constification at open made a literal false constant (not
\* null) of a vectorized qual, the flag is set and in row mode every call
\* of exec, after rescans too, returns the end of the stream and never
\* calls the child.
C9_ConstantFalse ==
  (RowModeOpen /\ \E i \in 1..Len(aux.seen) : IsFalseConst(aux.seen[i])) =>
    NothingEmitted

\* C10: when constification at open made a null constant of a vectorized
\* qual, the flag is set, in row mode no row comes out and the child is
\* never called, and the quals after that one are not constified.
C10_NullConstant ==
  (RowModeOpen /\ \E i \in 1..Len(aux.seen) : IsNullConst(aux.seen[i])) =>
    /\ NothingEmitted
    /\ IsNullConst(aux.seen[Len(aux.seen)])
    /\ \A i \in 1..(Len(aux.seen) - 1) : ~IsNullConst(aux.seen[i])
    /\ Len(chunk_state.vectorized_quals_constified) < Len(aux.seen)

\* The first of two quals compared with a null; after a rescan exec
\* returned the end of the stream over a child that holds a row.
C10_Witness ==
  /\ RowModeOpen
  /\ Len(plan.vectorized_quals_original) = 2
  /\ Len(aux.seen) = 1
  /\ IsNullConst(aux.seen[1])
  /\ rescans = 1
  /\ result.kind = "eos"
  /\ Len(child) = 1
  /\ child[1].pass[1]

(***************************************************************************)
(* Aggregation mode over a plan that carries vectorized quals: the plan    *)
(* hands the quals over in custom_exprs whatever the aggregation setting.  *)
(***************************************************************************)
PlansAggQual ==
  {[PlanAgg(seg, "F_SUM_INT4") EXCEPT !.vectorized_quals_original = q] :
     seg \in BOOLEAN, q \in ListsUpTo(QualKinds, 1)}

InitAggQual ==
  \E p \in PlansAggQual :
    \E c \in {x \in ChildrenAgg(p) : Len(x) <= 1} : InitNode(p, c)

SpecAggQual == InitAggQual /\ [][Next]_vars

\* The node is open in aggregation mode with the constant-false flag set.
AggModeFlagSet ==
  /\ phase = "open"
  /\ chunk_state.perform_vectorized_aggregation
  /\ chunk_state.have_constant_false_vectorized_qual

\* C11: in aggregation mode with the constant-false flag set, exec makes no
\* call of the child and no batch goes into the aggregate.
C11_AggShortCircuit ==
  AggModeFlagSet =>
    /\ child_calls = 0
    /\ child_pos = 1
    /\ \A i \in 1..Len(output) : output[i].isnull

(***************************************************************************)
(* The single-row path of the aggregation mode.                            *)
(***************************************************************************)
\* A step of exec in aggregation mode over a supported aggregate.
AggExecStep ==
  /\ phase = "open"
  /\ rescans' = rescans
  /\ chunk_state.perform_vectorized_aggregation
  /\ chunk_state.aggfnoid = "F_SUM_INT4"

\* The batch state taken by the aggregation: in use, over no batch of the
\* queue, and nothing in the heap.
QueueUntouched(cs) ==
  /\ cs.heap = <<>>
  /\ cs.batch_states = <<[used |-> TRUE, b |-> 0, cur |-> 0]>>

\* C12: in aggregation mode the first exec after open or after a rescan
\* pulls every batch of the child and returns one aggregate tuple without
\* any operation of the queue; every later exec before the next rescan
\* returns the end of the stream and leaves the child alone; after a rescan
\* the aggregate is computed once more.
C12_SingleRow ==
  [][AggExecStep =>
       IF result.kind = "none"
       THEN /\ output = <<>>
            /\ result'.kind \in {"agg", "error"}
            /\ result'.kind = "agg" =>
                 /\ output' = <<result'>>
                 /\ child_pos' = Len(child) + 1
                 /\ child_calls' = Len(child) + 1
                 /\ QueueUntouched(chunk_state')
       ELSE /\ result'.kind = "eos"
            /\ output' = output
            /\ Len(output) = 1
            /\ child_calls' = child_calls
            /\ child_pos' = child_pos
            /\ chunk_state' = chunk_state]_vars

\* After a rescan the sum 260 came out again, and the exec after it
\* returned the end of the stream.
C12_Witness ==
  /\ chunk_state.perform_vectorized_aggregation
  /\ rescans = 1
  /\ child = ExampleSum260
  /\ result.kind = "eos"
  /\ output = <<AggResult(FALSE, W(260))>>
  /\ child_calls = 3

(***************************************************************************)
(* Aggregates the node has no vectorized implementation for.               *)
(***************************************************************************)
NotSupported == "vectorized aggregation for function is not supported"

\* Aggregation mode over a function other than sum(int4).
UnsupportedAgg ==
  /\ plan.perform_vectorized_aggregation
  /\ plan.aggfnoid # "F_SUM_INT4"

\* C13 as stated: open raises the not-supported error of an unsupported
\* aggregate, so the node is never open over one.
C13_AsStated ==
  (UnsupportedAgg /\ phase # "created") =>
    /\ phase = "error"
    /\ result = ErrResult(NotSupported)
    /\ child_calls = 0

\* C13: over an unsupported aggregate open succeeds, and the first exec
\* raises the not-supported error before any call of the child and before
\* any tuple is returned; the error is never raised after a tuple.
C13_ErrorAtFirstExec ==
  [][UnsupportedAgg =>
       /\ phase = "created" => (phase' = "open" /\ result' = NoResult)
       /\ (phase = "open" /\ rescans' = rescans) =>
            /\ result.kind = "none"
            /\ phase' = "error"
            /\ result' = ErrResult(NotSupported)
            /\ output' = <<>>
            /\ child_calls' = 0
            /\ child_pos' = 1]_vars

\* The first exec over sum(float8) failed with the child, which holds a
\* batch, never called.
C13_Witness ==
  /\ UnsupportedAgg
  /\ phase = "error"
  /\ result = ErrResult(NotSupported)
  /\ Len(child) >= 1
  /\ child_calls = 0
  /\ output = <<>>

\* C14: sum over int4, float4 and float8 return a partial sum and never the
\* not-supported error; every other aggregate function raises it.
C14_AcceptedAggregates ==
  (plan.perform_vectorized_aggregation /\ result.kind \in {"agg", "error"}) =>
    (result = ErrResult(NotSupported)
       <=> plan.aggfnoid \notin {"F_SUM_INT4", "F_SUM_FLOAT4", "F_SUM_FLOAT8"})

(***************************************************************************)
(* The planner.  The catalog is fixed: a compressed chunk with a segmentby *)
(* column, a column of an algorithm with bulk decompression, a column of   *)
(* an algorithm without it, and the metadata columns; the uncompressed     *)
(* chunk holds the three data columns in another order.                    *)
(***************************************************************************)
FirstLowInvalidHeapAttributeNumber == -7

InvalidAttrNumber == 0

\* Compressed chunk, by attribute number.  segmentby_column_index is 0 for
\* a column that is not segmentby; the metadata columns have no
\* compression info.
CompressedRel ==
  << [attname |-> "device", info |-> TRUE, segmentby_column_index |-> 1,
      algo_id |-> "invalid"],
     [attname |-> "time", info |-> TRUE, segmentby_column_index |-> 0,
      algo_id |-> "deltadelta"],
     [attname |-> "note", info |-> TRUE, segmentby_column_index |-> 0,
      algo_id |-> "dictionary"],
     [attname |-> "_ts_meta_count", info |-> FALSE,
      segmentby_column_index |-> 0, algo_id |-> "invalid"],
     [attname |-> "_ts_meta_sequence_num", info |-> FALSE,
      segmentby_column_index |-> 0, algo_id |-> "invalid"],
     [attname |-> "_ts_meta_min_1", info |-> FALSE,
      segmentby_column_index |-> 0, algo_id |-> "invalid"],
     [attname |-> "_ts_meta_max_1", info |-> FALSE,
      segmentby_column_index |-> 0, algo_id |-> "invalid"],
     [attname |-> "_ts_meta_min_2", info |-> FALSE,
      segmentby_column_index |-> 0, algo_id |-> "invalid"],
     [attname |-> "_ts_meta_max_2", info |-> FALSE,
      segmentby_column_index |-> 0, algo_id |-> "invalid"] >>

\* Uncompressed chunk, by attribute number.  The compression orders by time
\* and then by note; note is of a collatable type.
ChunkRel == <<"time", "device", "note">>

ChunkCollation == <<"", "", "default">>

\* get_attnum: the attribute number of a name, InvalidAttrNumber when the
\* relation has no such column.
get_attnum_chunk(name) ==
  IF \E i \in 1..Len(ChunkRel) : ChunkRel[i] = name
  THEN CHOOSE i \in 1..Len(ChunkRel) : ChunkRel[i] = name
  ELSE InvalidAttrNumber

get_attnum_compressed(name) ==
  IF \E i \in 1..Len(CompressedRel) : CompressedRel[i].attname = name
  THEN CHOOSE i \in 1..Len(CompressedRel) : CompressedRel[i].attname = name
  ELSE InvalidAttrNumber

\* The algorithms that have a decompress-all function.
tsl_get_decompress_all_function(algo_id) == algo_id \in {"deltadelta", "gorilla"}

\* Bitmapsets are sets of bit numbers; an attribute number is stored offset
\* by FirstLowInvalidHeapAttributeNumber.
bms_is_member(x, a) == x \in a

bms_add_member(a, x) == a \cup {x}

bms_difference(a, b) == a \ b

\* The lowest member above prevbit, -2 when there is none.
bms_next_member(a, prevbit) ==
  IF \E b \in a : b > prevbit
  THEN CHOOSE b \in a : b > prevbit /\ \A c \in a : c > prevbit => b <= c
  ELSE -2

\* Lines 46-59: an error when the columns selected from the hypertable hold
\* a system column other than tableoid.
check_for_system_columns(attrs_used) ==
  LET bit == bms_next_member(attrs_used, -1)
      tableoid == TableOidAttributeNumber - FirstLowInvalidHeapAttributeNumber
      bit2 == IF bit = tableoid THEN bms_next_member(attrs_used, bit) ELSE bit
  IN  IF /\ bit > 0
         /\ bit + FirstLowInvalidHeapAttributeNumber < 0
         /\ bit2 > 0
         /\ bit2 + FirstLowInvalidHeapAttributeNumber < 0
      THEN "transparent decompression only supports tableoid system column"
      ELSE ""

\* The state of the loop of build_decompression_map over the target list.
MapStart(path, chunk_attrs_needed) ==
  [err |-> "",
   err_column |-> "",
   missing_count |-> TRUE,
   missing_sequence |-> path.needs_sequence_num,
   chunk_attrs_found |->
     IF bms_is_member(TableOidAttributeNumber - FirstLowInvalidHeapAttributeNumber,
                      chunk_attrs_needed)
     THEN {TableOidAttributeNumber - FirstLowInvalidHeapAttributeNumber}
     ELSE {},
   have_bulk_decompression_columns |-> FALSE,
   decompression_map |-> <<>>,
   is_segmentby_column |-> <<>>,
   bulk_decompression_column |-> <<>>,
   vectorized_aggregation_column |-> <<>>,
   memory_outside_array |-> path.memory_outside_array,
   uncompressed_chunk_attno_to_compression_info |->
     [a \in 0..Len(ChunkRel) |-> [bulk_decompression_possible |-> FALSE]]]

\* A variant that maps the sequence number whether it is needed or not.
DestinationAttno_sequence_always(path, chunk_attrs_needed, compressed_attno) ==
  LET column == CompressedRel[compressed_attno]
      chunk_attno == get_attnum_chunk(column.attname)
  IN  IF column.info
      THEN IF bms_is_member(0 - FirstLowInvalidHeapAttributeNumber,
                            chunk_attrs_needed)
           THEN chunk_attno
           ELSE IF bms_is_member(chunk_attno - FirstLowInvalidHeapAttributeNumber,
                                 chunk_attrs_needed)
           THEN chunk_attno
           ELSE 0
      ELSE IF column.attname = "_ts_meta_count"
      THEN DECOMPRESS_CHUNK_COUNT_ID
      ELSE IF column.attname = "_ts_meta_sequence_num"
      THEN DECOMPRESS_CHUNK_SEQUENCE_NUM_ID
      ELSE 0

\* Lines 172-249: the output column a scan column goes to, 0 for none.
DestinationAttno(path, chunk_attrs_needed, compressed_attno) ==
  LET column == CompressedRel[compressed_attno]
      chunk_attno == get_attnum_chunk(column.attname)
  IN  IF column.info
      THEN IF bms_is_member(0 - FirstLowInvalidHeapAttributeNumber,
                            chunk_attrs_needed)
           THEN chunk_attno
           ELSE IF bms_is_member(chunk_attno - FirstLowInvalidHeapAttributeNumber,
                                 chunk_attrs_needed)
           THEN chunk_attno
           ELSE 0
      ELSE IF column.attname = "_ts_meta_count"
      THEN DECOMPRESS_CHUNK_COUNT_ID
      ELSE IF path.needs_sequence_num /\ column.attname = "_ts_meta_sequence_num"
      THEN DECOMPRESS_CHUNK_SEQUENCE_NUM_ID
      ELSE 0

\* Lines 251-289: what one target list entry adds, given its destination.
MapAppend(path, x, compressed_attno, destination) ==
  LET column == CompressedRel[compressed_attno]
      bulk_decompression_possible ==
        /\ destination > 0
        /\ column.info
        /\ tsl_get_decompress_all_function(column.algo_id)
  IN  [x EXCEPT
         !.missing_count = @ /\ destination # DECOMPRESS_CHUNK_COUNT_ID,
         !.missing_sequence =
            @ /\ destination # DECOMPRESS_CHUNK_SEQUENCE_NUM_ID,
         !.chunk_attrs_found =
            IF destination > 0
            THEN bms_add_member(@, destination - FirstLowInvalidHeapAttributeNumber)
            ELSE @,
         !.decompression_map = Append(@, destination),
         !.is_segmentby_column =
            Append(@, column.info /\ column.segmentby_column_index # 0),
         !.have_bulk_decompression_columns = @ \/ bulk_decompression_possible,
         !.bulk_decompression_column = Append(@, bulk_decompression_possible),
         !.uncompressed_chunk_attno_to_compression_info =
            IF destination > 0
            THEN [@ EXCEPT ![destination] =
                    [bulk_decompression_possible |-> bulk_decompression_possible]]
            ELSE @,
         !.vectorized_aggregation_column =
            IF path.perform_vectorized_aggregation
            THEN Append(@, IF path.agg_varattno = destination
                           THEN "INT4OID" ELSE "-1")
            ELSE @]

\* The foreach of lines 145-290.
RECURSIVE MapLoop(_, _, _, _, _)
MapLoop(path, scan_tlist, chunk_attrs_needed, x, i) ==
  IF i > Len(scan_tlist) \/ x.err # "" THEN x
  ELSE IF scan_tlist[i].tag # "Var"
  THEN [x EXCEPT !.err = "compressed scan targetlist entries must be Vars"]
  ELSE IF scan_tlist[i].varattno = InvalidAttrNumber
  THEN [x EXCEPT !.err = "compressed scan targetlist must not have whole-row vars"]
  ELSE MapLoop(path, scan_tlist, chunk_attrs_needed,
               MapAppend(path, x, scan_tlist[i].varattno,
                         DestinationAttno(path, chunk_attrs_needed,
                                          scan_tlist[i].varattno)),
               i + 1)

\* A variant that checks the metadata columns only.
MapChecks_metadata_only(x, chunk_attrs_needed) ==
  IF x.err # "" THEN x
  ELSE IF x.missing_count
  THEN [x EXCEPT
          !.err = "the count column was not found in the compressed targetlist"]
  ELSE IF x.missing_sequence
  THEN [x EXCEPT !.err =
          "the sequence column was not found in the compressed scan targetlist"]
  ELSE x

\* Lines 292-318: the checks after the loop.
MapChecks(x, chunk_attrs_needed) ==
  LET attrs_not_found == bms_difference(chunk_attrs_needed, x.chunk_attrs_found)
      bit == bms_next_member(attrs_not_found,
                             0 - FirstLowInvalidHeapAttributeNumber)
  IN  IF x.err # "" THEN x
      ELSE IF bit >= 0
      THEN [x EXCEPT
              !.err = "column not found in the targetlist for compressed chunk",
              !.err_column = ChunkRel[bit + FirstLowInvalidHeapAttributeNumber]]
      ELSE IF x.missing_count
      THEN [x EXCEPT
              !.err = "the count column was not found in the compressed targetlist"]
      ELSE IF x.missing_sequence
      THEN [x EXCEPT !.err =
              "the sequence column was not found in the compressed scan targetlist"]
      ELSE x

build_decompression_map(path, scan_tlist, chunk_attrs_needed) ==
  IF check_for_system_columns(path.selectedCols) # ""
  THEN [MapStart(path, chunk_attrs_needed) EXCEPT
          !.err = check_for_system_columns(path.selectedCols)]
  ELSE MapChecks(MapLoop(path, scan_tlist, chunk_attrs_needed,
                         MapStart(path, chunk_attrs_needed), 1),
                 chunk_attrs_needed)

(***************************************************************************)
(* Expressions.  A node has a tag, and by tag an attribute number (Var),   *)
(* an operator (OpExpr), a volatility of its function (FuncExpr, OpExpr)   *)
(* and arguments.                                                          *)
(***************************************************************************)
InvalidOid == ""

OidIsValid(oid) == oid # InvalidOid

MakeNode(tag, varno, varattno, opno, volatile, args) ==
  [tag |-> tag, varno |-> varno, varattno |-> varattno, opno |-> opno,
   volatile |-> volatile, args |-> args]

\* A Var of the uncompressed chunk.
VarNode(varattno) == MakeNode("Var", "chunk_rel", varattno, InvalidOid, FALSE, <<>>)

\* A Var of the compressed chunk.
CompressedVarNode(varattno) ==
  MakeNode("Var", "compressed_rel", varattno, InvalidOid, FALSE, <<>>)

LeafNode(tag) == MakeNode(tag, "", 0, InvalidOid, FALSE, <<>>)

FuncExprNode(volatile, args) ==
  MakeNode("FuncExpr", "", 0, InvalidOid, volatile, args)

QualNode(tag, opno, args) == MakeNode(tag, "", 0, opno, FALSE, args)

\* pg_operator: the commutator and the function of an operator.  The
\* pattern match has no commutator; the cross-type comparison int4 < int8
\* has the commutator int8 > int4.
PgOperator ==
  [opno \in {"<", ">", "=", "~~", "=(tid,tid)", "<(int4,int8)",
             ">(int8,int4)"} |->
     CASE opno = "<" -> [oprcom |-> ">", oprcode |-> "int4lt"]
       [] opno = ">" -> [oprcom |-> "<", oprcode |-> "int4gt"]
       [] opno = "=" -> [oprcom |-> "=", oprcode |-> "int4eq"]
       [] opno = "~~" -> [oprcom |-> InvalidOid, oprcode |-> "textlike"]
       [] opno = "=(tid,tid)" -> [oprcom |-> "=(tid,tid)", oprcode |-> "tideq"]
       [] opno = "<(int4,int8)" ->
            [oprcom |-> ">(int8,int4)", oprcode |-> "int48lt"]
       [] opno = ">(int8,int4)" ->
            [oprcom |-> "<(int4,int8)", oprcode |-> "int84gt"]]

get_commutator(opno) == PgOperator[opno].oprcom

get_opcode(opno) == PgOperator[opno].oprcode

\* The registry of vector predicates, by function.
get_vector_const_predicate(opcode) ==
  opcode \in {"int4lt", "int4gt", "int4eq", "int84gt"}

\* Lines 398-402 under check_functions_in_node: the function of the node
\* itself is volatile.
contains_volatile_functions_checker(node) ==
  node.tag \in {"FuncExpr", "OpExpr"} /\ node.volatile

RECURSIVE is_not_runtime_constant_walker(_)
is_not_runtime_constant_walker(node) ==
  IF node.tag \in {"Var", "PlaceHolderVar", "Param"} THEN TRUE
  ELSE IF contains_volatile_functions_checker(node) THEN TRUE
  ELSE \E i \in 1..Len(node.args) : is_not_runtime_constant_walker(node.args[i])

is_not_runtime_constant(node) == is_not_runtime_constant_walker(node)

\* The expressions of the plan live in nodes, a sequence indexed by address;
\* address 0 is NULL.  copyObject puts the copy at a new address.
copyObject(nodes, addr) == Append(nodes, nodes[addr])

\* A variant that commutes the qual in place.
CommuteIfVarOnRight_in_place(nodes, qual) ==
  LET o == nodes[qual]
      commutator_opno == get_commutator(o.opno)
  IN  IF o.args[2].tag = "Var" /\ OidIsValid(commutator_opno)
      THEN [nodes |-> [nodes EXCEPT
                         ![qual].opno = commutator_opno,
                         ![qual].args = <<o.args[2], o.args[1]>>],
            o |-> qual]
      ELSE [nodes |-> nodes, o |-> qual]

\* Lines 475-490: the commuted copy, when the second argument is a Var and
\* the operator has a commutator.  Yields the nodes and the address of o.
CommuteIfVarOnRight(nodes, qual) ==
  LET o == nodes[qual]
      commutator_opno == get_commutator(o.opno)
      copy == Len(nodes) + 1
  IN  IF o.args[2].tag = "Var" /\ OidIsValid(commutator_opno)
      THEN [nodes |-> [copyObject(nodes, qual) EXCEPT
                         ![copy].opno = commutator_opno,
                         ![copy].args = <<o.args[2], o.args[1]>>],
            o |-> copy]
      ELSE [nodes |-> nodes, o |-> qual]

\* A variant that takes every operator for one of the registry.
\* Line 509: the element of the array of line 135 (max_attr + 1 elements)
\* at the attribute number of the Var.  Outside the array the read is of
\* memory that is not the array's, with whatever it holds.
CompressionInfoAt(path, varattno) ==
  IF varattno \in DOMAIN path.uncompressed_chunk_attno_to_compression_info
  THEN path.uncompressed_chunk_attno_to_compression_info[varattno]
  ELSE [bulk_decompression_possible |-> path.memory_outside_array]

VectorizableAsIs_any_operator(path, o) ==
  /\ o.args[1].tag = "Var"
  /\ ~is_not_runtime_constant(o.args[2])
  /\ CompressionInfoAt(path, o.args[1].varattno).bulk_decompression_possible

\* Lines 492-522: the checks on o, after the commutation.
VectorizableAsIs(path, o) ==
  /\ o.args[1].tag = "Var"
  /\ ~is_not_runtime_constant(o.args[2])
  /\ CompressionInfoAt(path, o.args[1].varattno).bulk_decompression_possible
  /\ get_vector_const_predicate(get_opcode(o.opno))

\* Yields the nodes and the address of the vectorized qual, 0 when the qual
\* is not vectorizable.
make_vectorized_qual(path, nodes, qual) ==
  IF nodes[qual].tag # "OpExpr" THEN [nodes |-> nodes, result |-> 0]
  ELSE IF Len(nodes[qual].args) # 2 THEN [nodes |-> nodes, result |-> 0]
  ELSE LET c == CommuteIfVarOnRight(nodes, qual)
       IN  [nodes |-> c.nodes,
            result |-> IF VectorizableAsIs(path, c.nodes[c.o]) THEN c.o ELSE 0]

\* A variant that puts a vectorized qual at the head of its list.
RECURSIVE find_vectorized_quals_lcons(_, _, _, _)
find_vectorized_quals_lcons(path, qual_list, x, i) ==
  IF i > Len(qual_list) THEN x
  ELSE LET m == make_vectorized_qual(path, x.nodes, qual_list[i])
       IN  find_vectorized_quals_lcons(path, qual_list,
             [nodes |-> m.nodes,
              vectorized |-> IF m.result # 0
                             THEN <<m.result>> \o x.vectorized
                             ELSE x.vectorized,
              nonvectorized |-> IF m.result # 0
                                THEN x.nonvectorized
                                ELSE Append(x.nonvectorized, qual_list[i])],
             i + 1)

\* Lines 529-547.  x holds the nodes and the two lists.
RECURSIVE find_vectorized_quals(_, _, _, _)
find_vectorized_quals(path, qual_list, x, i) ==
  IF i > Len(qual_list) THEN x
  ELSE LET m == make_vectorized_qual(path, x.nodes, qual_list[i])
       IN  find_vectorized_quals(path, qual_list,
             [nodes |-> m.nodes,
              vectorized |-> IF m.result # 0
                             THEN Append(x.vectorized, m.result)
                             ELSE x.vectorized,
              nonvectorized |-> IF m.result # 0
                                THEN x.nonvectorized
                                ELSE Append(x.nonvectorized, qual_list[i])],
             i + 1)

(***************************************************************************)
(* decompress_chunk_plan_create.                                           *)
(***************************************************************************)
\* Lines 321-367: the error the mutator raises on a node, "" for none.
RECURSIVE replace_compressed_vars_error(_)
replace_compressed_vars_error(node) ==
  IF node.tag = "Var"
  THEN IF node.varno = "chunk_rel" /\ node.varattno = TableOidAttributeNumber
       THEN ""
       ELSE IF node.varno # "compressed_rel" THEN ""
       ELSE IF get_attnum_chunk(CompressedRel[node.varattno].attname)
                 = InvalidAttrNumber
       THEN "cannot find column on decompressed chunk"
       ELSE ""
  ELSE IF node.tag = "PlaceHolderVar" THEN "ignoring placeholders"
  ELSE IF \E i \in 1..Len(node.args) :
            replace_compressed_vars_error(node.args[i]) # ""
  THEN replace_compressed_vars_error(
         node.args[CHOOSE i \in 1..Len(node.args) :
                     /\ replace_compressed_vars_error(node.args[i]) # ""
                     /\ \A j \in 1..(i - 1) :
                          replace_compressed_vars_error(node.args[j]) = ""])
  ELSE ""

\* The node the mutator returns: tableoid becomes a constant, a Var of the
\* compressed chunk the Var of the same name of the uncompressed one.
RECURSIVE replace_compressed_vars(_)
replace_compressed_vars(node) ==
  IF node.tag = "Var"
  THEN IF node.varno = "chunk_rel" /\ node.varattno = TableOidAttributeNumber
       THEN LeafNode("Const")
       ELSE IF node.varno # "compressed_rel" THEN node
       ELSE VarNode(get_attnum_chunk(CompressedRel[node.varattno].attname))
  ELSE [node EXCEPT
          !.args = [i \in 1..Len(node.args) |-> replace_compressed_vars(node.args[i])]]

\* Lines 372-396: the position of a compressed attribute in a target list,
\* 0 when it is not there (the caller raises the error).
find_attr_pos_in_tlist(targetlist, pos) ==
  IF \E i \in 1..Len(targetlist) : targetlist[i].varattno = pos
  THEN CHOOSE i \in 1..Len(targetlist) :
         /\ targetlist[i].varattno = pos
         /\ \A j \in 1..(i - 1) : targetlist[j].varattno # pos
  ELSE 0

\* pull_varattnos: the offset attribute numbers of the Vars of the chunk.
RECURSIVE pull_varattnos(_)
pull_varattnos(node) ==
  IF node.tag = "Var"
  THEN IF node.varno = "chunk_rel"
       THEN {node.varattno - FirstLowInvalidHeapAttributeNumber} ELSE {}
  ELSE UNION {pull_varattnos(node.args[i]) : i \in 1..Len(node.args)}

\* Lines 582-631: the clauses that go to the scan; over an index path a
\* clause of an equivalence class the index clauses have is left out.
ScanClauses(in) ==
  SelectSeq(in.clauses,
            LAMBDA rinfo :
              ~ /\ in.compressed_path.pathtype \in {"IndexScan", "IndexOnlyScan"}
                /\ rinfo.parent_ec # 0
                /\ rinfo.parent_ec \in in.compressed_path.indexclauses)

\* Lines 644-658: the target list of the compressed scan.
build_physical_tlist ==
  [i \in 1..Len(CompressedRel) |-> [tag |-> "Var", varattno |-> i]]

CompressedTargetlist(in) ==
  IF in.compressed_path.pathtype = "IndexOnlyScan"
  THEN in.compressed_path.indextlist
  ELSE IF in.dropped_columns THEN in.compressed_scan_targetlist
  ELSE build_physical_tlist

\* Lines 669-675.
ChunkAttrsNeeded(in, qual) ==
  UNION {pull_varattnos(qual[i]) : i \in 1..Len(qual)}
    \cup {a - FirstLowInvalidHeapAttributeNumber : a \in in.pathtarget}

\* column_segment_min_name, column_segment_max_name: the metadata column
\* of the i-th orderby column.
MetaColName_min_always(strategy, i) ==
  IF i = 1 THEN "_ts_meta_min_1"
  ELSE IF i = 2 THEN "_ts_meta_min_2"
  ELSE "_ts_meta_min_n"

MetaColName(strategy, i) ==
  IF strategy = "BTLessStrategyNumber"
  THEN (IF i = 1 THEN "_ts_meta_min_1"
        ELSE IF i = 2 THEN "_ts_meta_min_2"
        ELSE "_ts_meta_min_n")
  ELSE (IF i = 1 THEN "_ts_meta_max_1"
        ELSE IF i = 2 THEN "_ts_meta_max_2"
        ELSE "_ts_meta_max_n")

\* get_ordering_op_properties: the strategy of an ordering operator, "" for
\* an operator that is none.
get_ordering_op_properties(opno) ==
  IF opno = "<" THEN "BTLessStrategyNumber"
  ELSE IF opno = ">" THEN "BTGreaterStrategyNumber"
  ELSE ""

\* Lines 704-777: one entry per pathkey, from its equivalence member of the
\* chunk (varattno 0 stands for a pathkey without such a member, sortop for
\* the member of the operator family of the strategy of the pathkey).
SortOptions(in) ==
  LET pk == in.pathkeys
  IN  << [i \in 1..Len(pk) |-> pk[i].varattno],
         [i \in 1..Len(pk) |-> pk[i].sortop],
         [i \in 1..Len(pk) |->
            IF pk[i].varattno = 0 THEN InvalidOid
            ELSE ChunkCollation[pk[i].varattno]],
         [i \in 1..Len(pk) |-> pk[i].pk_nulls_first] >>

\* Lines 809-814: the metadata column of the i-th key.
SortAttrPosition(in, i) ==
  get_attnum_compressed(
    MetaColName(get_ordering_op_properties(SortOptions(in)[2][i]), i))

\* Lines 790-833: the column of the sort over the compressed batches, 0
\* when the target list does not hold it.
SortColIdx(in, tlist, i) ==
  IF ~in.dropped_columns /\ in.compressed_path.pathtype # "IndexOnlyScan"
  THEN SortAttrPosition(in, i)
  ELSE find_attr_pos_in_tlist(tlist, SortAttrPosition(in, i))

\* The error of the i-th pathkey in the loop of lines 707-775, and of the
\* i-th key in the loop of lines 790-833.
PathkeyError(in, i) ==
  IF in.pathkeys[i].varattno = 0
  THEN "could not find matching decompressed chunk column for batch sorted merge pathkey"
  ELSE IF ~OidIsValid(in.pathkeys[i].sortop)
  THEN "missing operator in opfamily"
  ELSE ""

SortKeyError(in, tlist, i) ==
  IF get_ordering_op_properties(SortOptions(in)[2][i]) = ""
  THEN "operator is not a valid ordering operator"
  ELSE IF SortAttrPosition(in, i) = InvalidAttrNumber
  THEN "couldn't find metadata column"
  ELSE IF SortColIdx(in, tlist, i) = 0
  THEN "Unable to locate var in targetlist"
  ELSE ""

\* The first error of the two loops, "" for none.
SortError(in, tlist) ==
  LET n == Len(in.pathkeys)
  IN  IF \E i \in 1..n : PathkeyError(in, i) # ""
      THEN PathkeyError(in, CHOOSE i \in 1..n :
                              /\ PathkeyError(in, i) # ""
                              /\ \A j \in 1..(i - 1) : PathkeyError(in, j) = "")
      ELSE IF \E i \in 1..n : SortKeyError(in, tlist, i) # ""
      THEN SortKeyError(in, tlist,
                        CHOOSE i \in 1..n :
                          /\ SortKeyError(in, tlist, i) # ""
                          /\ \A j \in 1..(i - 1) : SortKeyError(in, tlist, j) = "")
      ELSE ""

\* The plan that was not made.
PlanFailed(err, err_column) ==
  [err |-> err, err_column |-> err_column, nodes |-> <<>>,
   scan_plan_qual |-> <<>>, custom_exprs |-> <<>>, settings |-> <<>>,
   decompression_map |-> <<>>, is_segmentby_column |-> <<>>,
   bulk_decompression_column |-> <<>>, vectorized_aggregation_column |-> <<>>,
   sort_options |-> <<>>, custom_plans |-> <<>>, input_qual |-> <<>>,
   compressed_targetlist |-> <<>>, custom_scan_tlist |-> FALSE]

\* A variant where RVQ_Only asks for a vectorized qual besides the residual
\* one.
RequireVectorQualError_with_candidate(in, vectorized_quals, qual) ==
  IF ~in.ts_debug THEN ""
  ELSE IF in.debug_require_vector_qual = "RVQ_Forbid" /\ Len(vectorized_quals) > 0
  THEN "debug: encountered vector quals when they are disabled"
  ELSE IF /\ in.debug_require_vector_qual = "RVQ_Only"
          /\ Len(qual) > 0
          /\ Len(vectorized_quals) > 0
  THEN "debug: encountered non-vector quals when they are disabled"
  ELSE ""

\* Lines 887-897, in a debug build.
RequireVectorQualError(in, vectorized_quals, qual) ==
  IF ~in.ts_debug THEN ""
  ELSE IF in.debug_require_vector_qual = "RVQ_Forbid" /\ Len(vectorized_quals) > 0
  THEN "debug: encountered vector quals when they are disabled"
  ELSE IF in.debug_require_vector_qual = "RVQ_Only" /\ Len(qual) > 0
  THEN "debug: encountered non-vector quals when they are disabled"
  ELSE ""

\* Lines 682-862: the plan under the node.
CustomPlans(in, tlist) ==
  IF in.path.batch_sorted_merge
  THEN << [tag |-> "Sort",
           sortColIdx |-> [i \in 1..Len(in.pathkeys) |-> SortColIdx(in, tlist, i)],
           sortOperators |-> SortOptions(in)[2],
           collations |-> SortOptions(in)[3],
           nullsFirst |-> SortOptions(in)[4]] >>
  ELSE IF ~in.compressed_pathkeys_contained
  THEN << [tag |-> "Sort", sortColIdx |-> <<>>, sortOperators |-> <<>>,
           collations |-> <<>>, nullsFirst |-> <<>>] >>
  ELSE << [tag |-> "Scan", sortColIdx |-> <<>>, sortOperators |-> <<>>,
           collations |-> <<>>, nullsFirst |-> <<>>] >>

\* Lines 899-920, given the split of the quals f.
PlanMade(in, tlist, m, input_qual, enable_bulk_decompression, f) ==
  [err |-> "", err_column |-> "", nodes |-> f.nodes,
   scan_plan_qual |-> f.nonvectorized,
   custom_exprs |-> f.vectorized,
   settings |-> << in.hypertable_id, in.chunk_relid, in.path.reverse,
                   in.path.batch_sorted_merge, enable_bulk_decompression,
                   in.path.perform_vectorized_aggregation >>,
   decompression_map |-> m.decompression_map,
   is_segmentby_column |-> m.is_segmentby_column,
   bulk_decompression_column |-> m.bulk_decompression_column,
   vectorized_aggregation_column |-> m.vectorized_aggregation_column,
   sort_options |-> IF in.path.batch_sorted_merge THEN SortOptions(in) ELSE <<>>,
   custom_plans |-> CustomPlans(in, tlist),
   input_qual |-> input_qual,
   compressed_targetlist |-> tlist,
   custom_scan_tlist |-> in.path.perform_vectorized_aggregation]

\* Lines 866-897.  An error of lines 887-897 leaves no plan; the record
\* holds the error and the lists as they were when it was raised.
PlanSplit(in, tlist, m, input_qual, enable_bulk_decompression, f) ==
  [PlanMade(in, tlist, m, input_qual, enable_bulk_decompression, f) EXCEPT
     !.err = RequireVectorQualError(in, f.vectorized, f.nonvectorized)]

\* The split of the quals when bulk decompression is not enabled.
NoSplit(qual) ==
  [nodes |-> qual, vectorized |-> <<>>,
   nonvectorized |-> [i \in 1..Len(qual) |-> i]]

\* A variant that does not ask the setting enable_bulk_decompression.
PlanAfterMap_ignoring_guc(in, tlist, m, qual) ==
  IF m.err # "" THEN PlanFailed(m.err, m.err_column)
  ELSE IF in.path.batch_sorted_merge /\ SortError(in, tlist) # ""
  THEN PlanFailed(SortError(in, tlist), "")
  ELSE LET enable_bulk_decompression ==
             /\ ~in.path.batch_sorted_merge
             /\ m.have_bulk_decompression_columns
       IN  PlanSplit(in, tlist, m, qual, enable_bulk_decompression,
                     IF enable_bulk_decompression
                     THEN find_vectorized_quals(m, [i \in 1..Len(qual) |-> i],
                            [nodes |-> qual, vectorized |-> <<>>,
                             nonvectorized |-> <<>>], 1)
                     ELSE NoSplit(qual))

\* Lines 682-885: the sort information, whether bulk decompression is
\* enabled, and the split of the quals.
PlanAfterMap(in, tlist, m, qual) ==
  IF m.err # "" THEN PlanFailed(m.err, m.err_column)
  ELSE IF in.path.batch_sorted_merge /\ SortError(in, tlist) # ""
  THEN PlanFailed(SortError(in, tlist), "")
  ELSE LET enable_bulk_decompression ==
             /\ ~in.path.batch_sorted_merge
             /\ in.ts_guc_enable_bulk_decompression
             /\ m.have_bulk_decompression_columns
       IN  PlanSplit(in, tlist, m, qual, enable_bulk_decompression,
                     IF enable_bulk_decompression
                     THEN find_vectorized_quals(m, [i \in 1..Len(qual) |-> i],
                            [nodes |-> qual, vectorized |-> <<>>,
                             nonvectorized |-> <<>>], 1)
                     ELSE NoSplit(qual))

PlanAfterQual(in, qual) ==
  PlanAfterMap(in, CompressedTargetlist(in),
               build_decompression_map(in.path, CompressedTargetlist(in),
                                       ChunkAttrsNeeded(in, qual)),
               qual)

decompress_chunk_plan_create(in) ==
  LET clauses == ScanClauses(in)
  IN  IF \E i \in 1..Len(clauses) :
           replace_compressed_vars_error(clauses[i].clause) # ""
      THEN PlanFailed(
             replace_compressed_vars_error(
               clauses[CHOOSE i \in 1..Len(clauses) :
                 /\ replace_compressed_vars_error(clauses[i].clause) # ""
                 /\ \A j \in 1..(i - 1) :
                      replace_compressed_vars_error(clauses[j].clause) = ""].clause),
             "")
      ELSE PlanAfterQual(in,
             [i \in 1..Len(clauses) |-> replace_compressed_vars(clauses[i].clause)])

(***************************************************************************)
(* Planner inputs: a path over the chunk, the restriction clauses and the  *)
(* settings.                                                               *)
(***************************************************************************)
MaxPlanQuals == 2      \* clauses of a plan, over the short list of shapes

TlistVar(varattno) == [tag |-> "Var", varattno |-> varattno]

Clause(node, parent_ec) == [clause |-> node, parent_ec |-> parent_ec]

\* A sequential scan of a chunk without dropped columns for
\* SELECT time ... and no clause.
PlanInBase ==
  [clauses |-> <<>>,
   compressed_path |-> [pathtype |-> "SeqScan", indextlist |-> <<>>,
                        indexclauses |-> {}],
   dropped_columns |-> FALSE,
   compressed_scan_targetlist |-> <<>>,
   pathtarget |-> {1},
   pathkeys |-> <<>>,
   compressed_pathkeys_contained |-> TRUE,
   ts_guc_enable_bulk_decompression |-> TRUE,
   ts_debug |-> FALSE,
   debug_require_vector_qual |-> "RVQ_Allow",
   hypertable_id |-> 1,
   chunk_relid |-> 2,
   path |-> [needs_sequence_num |-> FALSE, batch_sorted_merge |-> FALSE,
             reverse |-> FALSE, perform_vectorized_aggregation |-> FALSE,
             agg_varattno |-> 0, selectedCols |-> {},
             memory_outside_array |-> FALSE]]

\* The operands of a clause: the columns time (1), device (2) and note (3),
\* tableoid, constants, parameters, placeholders, and function calls over
\* them.
ArgNodes ==
  {VarNode(a) : a \in {1, 2, 3, TableOidAttributeNumber}}
  \cup {LeafNode(t) : t \in {"Const", "Param", "PlaceHolderVar"}}
  \cup {FuncExprNode(v, <<LeafNode("Const")>>) : v \in BOOLEAN}
  \cup {FuncExprNode(FALSE, <<n>>) : n \in {VarNode(1), LeafNode("Param")}}

OpExprs ==
  {QualNode("OpExpr", opno, <<l, r>>) :
     opno \in DOMAIN PgOperator, l \in ArgNodes, r \in ArgNodes}

\* Clauses that are not binary operator expressions.
OtherQuals ==
  {QualNode("BoolExpr", InvalidOid,
            <<QualNode("OpExpr", "<", <<VarNode(1), LeafNode("Const")>>)>>),
   QualNode("ScalarArrayOpExpr", "=", <<VarNode(1), LeafNode("Const")>>),
   QualNode("OpExpr", "<", <<VarNode(1)>>),
   QualNode("OpExpr", "<",
            <<VarNode(1), LeafNode("Const"), LeafNode("Const")>>),
   VarNode(1)}

\* The short list: time < c, c < time, note = c, c = device, time ~~ c,
\* c <(int4,int8) time, time < $1, and a boolean expression.
ShortQuals ==
  {QualNode("OpExpr", "<", <<VarNode(1), LeafNode("Const")>>),
   QualNode("OpExpr", "<", <<LeafNode("Const"), VarNode(1)>>),
   QualNode("OpExpr", "=", <<VarNode(3), LeafNode("Const")>>),
   QualNode("OpExpr", "=", <<LeafNode("Const"), VarNode(2)>>),
   QualNode("OpExpr", "~~", <<VarNode(1), LeafNode("Const")>>),
   QualNode("OpExpr", "<(int4,int8)", <<LeafNode("Const"), VarNode(1)>>),
   QualNode("OpExpr", "<", <<VarNode(1), LeafNode("Param")>>),
   QualNode("BoolExpr", InvalidOid,
            <<QualNode("OpExpr", "<", <<VarNode(1), LeafNode("Const")>>)>>)}

ClauseLists(quals, n) ==
  {[i \in 1..Len(l) |-> Clause(l[i], 0)] : l \in ListsUpTo(quals, n)}

\* Every shape of clause, alone, with bulk decompression on and off.
PlanInOneQual ==
  {[PlanInBase EXCEPT !.clauses = <<Clause(q, 0)>>,
                      !.ts_guc_enable_bulk_decompression = g] :
     q \in OpExprs \cup OtherQuals, g \in BOOLEAN}

\* Lists of clauses under every setting that decides on bulk decompression
\* and on the check of the debug build.
PlanInSettings ==
  {[PlanInBase EXCEPT
      !.clauses = c,
      !.pathtarget = t,
      !.ts_guc_enable_bulk_decompression = g,
      !.ts_debug = d[1],
      !.debug_require_vector_qual = d[2],
      !.path.perform_vectorized_aggregation = a,
      !.path.agg_varattno = IF a THEN 1 ELSE 0] :
     c \in ClauseLists(ShortQuals, MaxPlanQuals),
     t \in {{1}, {2}, {3}},
     g \in BOOLEAN,
     d \in {<<FALSE, "RVQ_Allow">>, <<TRUE, "RVQ_Allow">>,
            <<TRUE, "RVQ_Forbid">>, <<TRUE, "RVQ_Only">>},
     a \in BOOLEAN}

\* Target lists of a compressed scan over a chunk with dropped columns, in
\* the order of the attributes (here without the metadata of the second
\* orderby column).
RECURSIVE AscendingLists(_)
AscendingLists(n) ==
  IF n = 0 THEN {<<>>}
  ELSE AscendingLists(n - 1)
         \cup {Append(l, TlistVar(n)) : l \in AscendingLists(n - 1)}

BadTargetlists ==
  {<<TlistVar(1), [tag |-> "Other", varattno |-> 0]>>,
   <<TlistVar(4), TlistVar(InvalidAttrNumber)>>}

PlanInTargetlists ==
  {[PlanInBase EXCEPT
      !.dropped_columns = TRUE,
      !.compressed_scan_targetlist = tl,
      !.pathtarget = t,
      !.clauses = c,
      !.path.needs_sequence_num = s] :
     tl \in AscendingLists(7) \cup BadTargetlists,
     t \in SUBSET {0, 1, 2, 3} \cup {{TableOidAttributeNumber},
                                     {TableOidAttributeNumber, 2}},
     c \in ClauseLists({QualNode("OpExpr", "<",
                                 <<VarNode(1), LeafNode("Const")>>)}, 1),
     s \in BOOLEAN}

\* System columns among the selected columns of the hypertable (offset),
\* ctid being -1.
PlanInSelected ==
  {[PlanInBase EXCEPT !.path.selectedCols = s] :
     s \in {{8}, {1, 8}, {6, 8}, {1, 6}, {1}}}

\* Index scans: clauses of the equivalence class of an index clause, and
\* the target list of an index-only scan.
PlanInIndex ==
  {[PlanInBase EXCEPT
      !.clauses = [i \in 1..Len(c) |-> Clause(c[i].clause, ec[i])],
      !.compressed_path = [pathtype |-> pt,
                           indextlist |-> tl,
                           indexclauses |-> {1}],
      !.pathtarget = {2}] :
     c \in {l \in ClauseLists(ShortQuals, MaxPlanQuals) : Len(l) = 2},
     ec \in [1..2 -> 0..2],
     tl \in {<<TlistVar(1), TlistVar(5)>>, <<TlistVar(1), TlistVar(4)>>},
     pt \in {"SeqScan", "IndexScan", "IndexOnlyScan"}}

\* A pathkey over a column of the chunk (0: no member of the chunk in its
\* equivalence class) with the operator of its strategy in the family.
PathKey(varattno, sortop, pk_strategy, pk_nulls_first) ==
  [varattno |-> varattno, sortop |-> sortop, pk_strategy |-> pk_strategy,
   pk_nulls_first |-> pk_nulls_first]

Orderings ==
  {<<"<", "BTLessStrategyNumber">>, <<">", "BTGreaterStrategyNumber">>}

\* Pathkeys that match a prefix of the compression order (time, note), and
\* the ones that planning fails on.
PathkeyLists ==
  {<<>>}
    \cup {<<PathKey(a, o[1], o[2], nf)>> :
            a \in {0, 1},
            o \in Orderings \cup {<<InvalidOid, "BTLessStrategyNumber">>},
            nf \in BOOLEAN}
    \cup {<<PathKey(1, o[1], o[2], nf), PathKey(3, p[1], p[2], mf)>> :
            o \in Orderings, p \in Orderings, nf \in BOOLEAN, mf \in BOOLEAN}
    \cup {<<PathKey(1, "<", "BTLessStrategyNumber", FALSE),
            PathKey(3, "<", "BTLessStrategyNumber", FALSE),
            PathKey(2, "<", "BTLessStrategyNumber", FALSE)>>}

\* Batch sorted merge, and the paths that need a sort.
PlanInSorted ==
  {[PlanInBase EXCEPT
      !.clauses = c,
      !.pathkeys = pk,
      !.pathtarget = {1} \cup ({pk[i].varattno : i \in 1..Len(pk)} \ {0}),
      !.dropped_columns = tl # <<>>,
      !.compressed_scan_targetlist = tl,
      !.compressed_pathkeys_contained = pc,
      !.path.batch_sorted_merge = (bsm /\ pk # <<>>),
      !.path.reverse = (bsm /\ pk # <<>> /\ pk[1].pk_strategy = "BTGreaterStrategyNumber"),
      !.path.needs_sequence_num = s] :
     c \in ClauseLists(ShortQuals, 1),
     pk \in PathkeyLists,
     tl \in {<<>>,
             <<TlistVar(2), TlistVar(3), TlistVar(4), TlistVar(5)>>,
             <<TlistVar(2), TlistVar(3), TlistVar(4), TlistVar(5), TlistVar(6),
               TlistVar(7), TlistVar(8), TlistVar(9)>>},
     pc \in BOOLEAN,
     bsm \in BOOLEAN,
     s \in BOOLEAN}

\* A clause over a Var of the compressed chunk.
PlanInCompressedVar ==
  {[PlanInBase EXCEPT
      !.clauses = <<Clause(QualNode("OpExpr", "<",
                             <<CompressedVarNode(a), LeafNode("Const")>>), 0)>>] :
     a \in 1..Len(CompressedRel)}

\* System columns among the attributes the plan needs (ctid being -1, cmax
\* -5), with the selected columns of the hypertable that hold them and
\* with none (no permission info, or a column that a row mark added).
PlanInSystem ==
  {[PlanInBase EXCEPT
      !.pathtarget = t,
      !.path.selectedCols =
         IF sel THEN {a - FirstLowInvalidHeapAttributeNumber : a \in t} ELSE {}] :
     t \in {{-1}, {-5}, {-1, 1}, {TableOidAttributeNumber, -1}, {-1, 0},
            {-3, -2}, {TableOidAttributeNumber},
            {TableOidAttributeNumber, 1}, {TableOidAttributeNumber, 0, 2}},
     sel \in BOOLEAN}

\* Quals on the whole row and on system columns, with the selected columns
\* of the permission check and without them, under an equality without a
\* vector predicate; u is what a read outside the array of compression info
\* finds.
SystemQualArgs(a) ==
  <<  <<VarNode(a), LeafNode("Const")>>,
      <<LeafNode("Const"), VarNode(a)>>,
      <<VarNode(a), VarNode(1)>>  >>

PlanInSystemQual ==
  {[PlanInBase EXCEPT
      !.clauses =
         <<Clause(QualNode("OpExpr", "=(tid,tid)", SystemQualArgs(a)[k]), 0)>>,
      !.path.selectedCols = IF sel THEN {a - FirstLowInvalidHeapAttributeNumber,
                                         1 - FirstLowInvalidHeapAttributeNumber}
                            ELSE {},
      !.path.memory_outside_array = u] :
     a \in {-5, -3, -1, 0},
     k \in 1..3,
     sel \in BOOLEAN,
     u \in BOOLEAN}

PlanInputs ==
  PlanInOneQual \cup PlanInSettings \cup PlanInTargetlists \cup PlanInSelected
    \cup PlanInIndex \cup PlanInSorted \cup PlanInCompressedVar
    \cup PlanInSystem \cup PlanInSystemQual

InitPlan ==
  /\ fn_in \in PlanInputs
  /\ fn_out = <<>>
  /\ plan = PlanRow
  /\ child = <<>>
  /\ child_pos = 1
  /\ child_calls = 0
  /\ chunk_state = decompress_chunk_state_create(plan)
  /\ phase = "created"
  /\ result = NoResult
  /\ output = <<>>
  /\ rescans = 0
  /\ aux = AuxStart

\* The planner makes the plan of the path.
PlanCreate ==
  /\ fn_in # <<>>
  /\ fn_out = <<>>
  /\ fn_out' = decompress_chunk_plan_create(fn_in)
  /\ UNCHANGED <<plan, child, child_pos, child_calls, chunk_state, phase,
                 result, output, rescans, aux, fn_in>>

SpecPlan == InitPlan /\ [][PlanCreate]_vars

(***************************************************************************)
(* Properties of the plan.                                                 *)
(***************************************************************************)
\* The planner has made a plan.
PlanDone == fn_out # <<>> /\ fn_out.err = ""

\* The plan was made with bulk decompression enabled.
PlanBulk == PlanDone /\ fn_out.settings[5]

\* The addresses of a list of quals.
Addresses(l) == {l[i] : i \in 1..Len(l)}

\* The nodes of an expression.
RECURSIVE NodesOf(_)
NodesOf(node) ==
  {node} \cup UNION {NodesOf(node.args[i]) : i \in 1..Len(node.args)}

\* A runtime constant: no Var, PlaceHolderVar, Param or volatile function
\* anywhere in it.
RuntimeConstant(node) ==
  \A n \in NodesOf(node) :
    /\ n.tag \notin {"Var", "PlaceHolderVar", "Param"}
    /\ ~n.volatile

\* A reference to a column the plan decompresses in bulk.
BulkColumnVar(node) ==
  /\ node.tag = "Var"
  /\ \E k \in 1..Len(fn_out.decompression_map) :
       /\ fn_out.decompression_map[k] = node.varattno
       /\ fn_out.bulk_decompression_column[k]

\* The commutation applies: a Var on the right and a commutator.
Commutes(q) ==
  q.args[2].tag = "Var" /\ PgOperator[q.opno].oprcom # InvalidOid

\* The qual as the classification reads it, after the optional commutation.
Commuted(q) ==
  IF Commutes(q)
  THEN [q EXCEPT !.opno = PgOperator[q.opno].oprcom,
                 !.args = <<q.args[2], q.args[1]>>]
  ELSE q

InRegistry(opno) ==
  PgOperator[opno].oprcode \in {"int4lt", "int4gt", "int4eq", "int84gt"}

\* The three conditions of the classification.
Vectorizable(q) ==
  /\ q.tag = "OpExpr"
  /\ Len(q.args) = 2
  /\ BulkColumnVar(Commuted(q).args[1])
  /\ RuntimeConstant(Commuted(q).args[2])
  /\ InRegistry(Commuted(q).opno)

\* C15: with bulk decompression enabled a qual leaves the residual list
\* (is accepted by make_vectorized_qual) exactly when it is an operator
\* expression of two arguments whose left operand, after the optional
\* commutation, is a column decompressed in bulk, whose right operand is a
\* runtime constant, and whose operator is in the registry.
C15_Classification ==
  PlanBulk =>
    \A i \in 1..Len(fn_out.input_qual) :
      i \notin Addresses(fn_out.scan_plan_qual)
        <=> Vectorizable(fn_out.input_qual[i])

\* The clause constant <(int4,int8) time was vectorized as its commuted
\* copy, and a clause over a function of a parameter was not.
C15_Witness ==
  /\ PlanBulk
  /\ Len(fn_out.input_qual) = 2
  /\ fn_out.input_qual[1] =
       QualNode("OpExpr", "<(int4,int8)", <<LeafNode("Const"), VarNode(1)>>)
  /\ fn_out.input_qual[2] =
       QualNode("OpExpr", "<", <<VarNode(1), LeafNode("Param")>>)
  /\ fn_out.scan_plan_qual = <<2>>
  /\ Len(fn_out.custom_exprs) = 1

\* The constant is the left operand and a column reference the right one.
ConstantOnLeft(q) ==
  /\ q.tag = "OpExpr"
  /\ Len(q.args) = 2
  /\ q.args[1].tag # "Var"
  /\ q.args[2].tag = "Var"

\* C16: a qual with the constant on the left is vectorized only as a copy
\* that has the commutator for operator and the operands swapped, the qual
\* itself is left as it was, and without a commutator the qual stays in
\* the residual list.
C16_Commutation ==
  PlanBulk =>
    \A i \in 1..Len(fn_out.input_qual) :
      /\ fn_out.nodes[i] = fn_out.input_qual[i]
      /\ ConstantOnLeft(fn_out.input_qual[i]) =>
           /\ i \notin Addresses(fn_out.custom_exprs)
           /\ PgOperator[fn_out.input_qual[i].opno].oprcom = InvalidOid
                => i \in Addresses(fn_out.scan_plan_qual)
           /\ i \notin Addresses(fn_out.scan_plan_qual) =>
                \E a \in Addresses(fn_out.custom_exprs) :
                  /\ a > Len(fn_out.input_qual)
                  /\ fn_out.nodes[a].opno =
                       PgOperator[fn_out.input_qual[i].opno].oprcom
                  /\ fn_out.nodes[a].args =
                       << fn_out.input_qual[i].args[2],
                          fn_out.input_qual[i].args[1] >>

\* constant < time went to the vectorized list as time > constant, the
\* clause itself unchanged.
C16_Witness ==
  /\ PlanBulk
  /\ fn_out.input_qual =
       << QualNode("OpExpr", "<", <<LeafNode("Const"), VarNode(1)>>) >>
  /\ fn_out.custom_exprs = <<2>>
  /\ fn_out.nodes[2] = QualNode("OpExpr", ">", <<VarNode(1), LeafNode("Const")>>)
  /\ fn_out.nodes[1] = fn_out.input_qual[1]
  /\ fn_out.scan_plan_qual = <<>>

\* The input quals the classification accepts, and those it rejects, in the
\* order of the input.
AcceptedQuals ==
  SelectSeq([i \in 1..Len(fn_out.input_qual) |-> i],
            LAMBDA i : Vectorizable(fn_out.input_qual[i]))

RejectedQuals ==
  SelectSeq([i \in 1..Len(fn_out.input_qual) |-> i],
            LAMBDA i : ~Vectorizable(fn_out.input_qual[i]))

\* C17: with bulk decompression enabled the residual list is the rejected
\* quals in input order, the vectorized list is the accepted quals (each as
\* its possibly commuted copy) in input order, and no qual is lost or in
\* both lists or twice in one.
C17_Partition ==
  PlanBulk =>
    /\ fn_out.scan_plan_qual = RejectedQuals
    /\ Len(fn_out.custom_exprs) = Len(AcceptedQuals)
    /\ \A k \in 1..Len(fn_out.custom_exprs) :
         /\ fn_out.nodes[fn_out.custom_exprs[k]]
              = Commuted(fn_out.input_qual[AcceptedQuals[k]])
         /\ \A j \in 1..Len(fn_out.custom_exprs) :
              fn_out.custom_exprs[j] = fn_out.custom_exprs[k] => j = k
    /\ Addresses(fn_out.custom_exprs) \cap Addresses(fn_out.scan_plan_qual) = {}
    /\ Len(fn_out.custom_exprs) + Len(fn_out.scan_plan_qual)
         = Len(fn_out.input_qual)

\* Two clauses were both vectorized, in their order, the second commuted.
C17_Witness ==
  /\ PlanBulk
  /\ fn_out.input_qual =
       << QualNode("OpExpr", "<", <<VarNode(1), LeafNode("Const")>>),
          QualNode("OpExpr", "<(int4,int8)", <<LeafNode("Const"), VarNode(1)>>) >>
  /\ fn_out.custom_exprs = <<1, 3>>
  /\ fn_out.scan_plan_qual = <<>>

\* The three conditions: the setting is on, the path does not use batch
\* sorted merge, and a column of the plan can be decompressed in bulk.
BulkFavourable ==
  /\ fn_in.ts_guc_enable_bulk_decompression
  /\ ~fn_in.path.batch_sorted_merge
  /\ \E k \in 1..Len(fn_out.bulk_decompression_column) :
       fn_out.bulk_decompression_column[k]

\* C18: the bulk decompression setting of the plan is true exactly when
\* the three conditions hold; when one fails, the vectorized list is empty
\* and every qual is in the residual list, unchanged.
C18_BulkDisabled ==
  PlanDone =>
    /\ fn_out.settings[5] <=> BulkFavourable
    /\ fn_out.custom_exprs # <<>> => BulkFavourable
    /\ ~BulkFavourable =>
         /\ fn_out.custom_exprs = <<>>
         /\ fn_out.scan_plan_qual = [i \in 1..Len(fn_out.input_qual) |-> i]
         /\ fn_out.nodes = fn_out.input_qual

\* With the setting off the clause time < constant over a column that can
\* be decompressed in bulk stayed in the residual list.
C18_Witness ==
  /\ PlanDone
  /\ ~fn_in.ts_guc_enable_bulk_decompression
  /\ ~fn_in.path.batch_sorted_merge
  /\ fn_out.bulk_decompression_column[2]
  /\ fn_out.input_qual =
       << QualNode("OpExpr", "<", <<VarNode(1), LeafNode("Const")>>) >>
  /\ fn_out.scan_plan_qual = <<1>>
  /\ fn_out.custom_exprs = <<>>
  /\ ~fn_out.settings[5]

\* The target list of the compressed scan the map was built over.
ScanTlist == CompressedTargetlist(fn_in)

\* The positions of the target list that hold the column of a name.
TlistPositions(name) ==
  {i \in 1..Len(ScanTlist) :
     /\ ScanTlist[i].tag = "Var"
     /\ ScanTlist[i].varattno # InvalidAttrNumber
     /\ CompressedRel[ScanTlist[i].varattno].attname = name}

CountMissing == "the count column was not found in the compressed targetlist"

SequenceMissing ==
  "the sequence column was not found in the compressed scan targetlist"

\* The descriptor table the executor builds from the lists of the plan.
DescriptorTable ==
  BuildTemplateColumns(
    decompress_chunk_state_create(
      [PlanRow EXCEPT
         !.decompression_map = fn_out.decompression_map,
         !.is_segmentby_column = fn_out.is_segmentby_column,
         !.bulk_decompression_column = fn_out.bulk_decompression_column]))
    .cs.template_columns

\* C19: planning fails when the target list of the child has no count
\* column; it fails over a missing sequence number exactly when the path
\* needs the sequence number; and when it does not need it, a sequence
\* number column of the target list has the destination 0 and no
\* descriptor of the executor.
C19_MandatoryMetadata ==
  fn_out # <<>> =>
    /\ TlistPositions("_ts_meta_count") = {} => fn_out.err # ""
    /\ fn_out.err \in {"", CountMissing, SequenceMissing} =>
         (fn_out.err = CountMissing <=> TlistPositions("_ts_meta_count") = {})
    /\ (fn_in.path.needs_sequence_num
          /\ TlistPositions("_ts_meta_sequence_num") = {}) => fn_out.err # ""
    /\ fn_out.err \in {"", SequenceMissing} =>
         (fn_out.err = SequenceMissing
            <=> /\ fn_in.path.needs_sequence_num
                /\ TlistPositions("_ts_meta_sequence_num") = {})
    /\ (PlanDone /\ ~fn_in.path.needs_sequence_num) =>
         /\ \A i \in TlistPositions("_ts_meta_sequence_num") :
              /\ fn_out.decompression_map[i] = 0
              /\ \A d \in 1..Len(DescriptorTable) :
                   DescriptorTable[d].compressed_scan_attno # i
         /\ \A d \in 1..Len(DescriptorTable) :
              DescriptorTable[d].type # "SEQUENCE_NUM_COLUMN"

\* Over the target list (time, count, sequence number) of a path that does
\* not need the sequence number the map is (1, count, 0) and the executor
\* has two descriptors.
C19_Witness ==
  /\ PlanDone
  /\ ~fn_in.path.needs_sequence_num
  /\ ScanTlist = <<TlistVar(2), TlistVar(4), TlistVar(5)>>
  /\ fn_out.decompression_map = <<1, DECOMPRESS_CHUNK_COUNT_ID, 0>>
  /\ Len(DescriptorTable) = 2

\* The attributes of the chunk the plan needs (attribute number > 0): those
\* of the quals of the scan and of the target of the path.
NeededAttributes ==
  {a \in 1..Len(ChunkRel) :
     (a - FirstLowInvalidHeapAttributeNumber) \in
       ChunkAttrsNeeded(fn_in,
         [i \in 1..Len(ScanClauses(fn_in)) |->
            replace_compressed_vars(ScanClauses(fn_in)[i].clause)])}

\* The needed attributes no column of the target list produces.
MissingAttributes ==
  {a \in NeededAttributes : TlistPositions(ChunkRel[a]) = {}}

ColumnNotFound == "column not found in the targetlist for compressed chunk"

\* The errors raised before the needed columns are looked for.
EarlierErrors ==
  {"transparent decompression only supports tableoid system column",
   "compressed scan targetlist entries must be Vars",
   "compressed scan targetlist must not have whole-row vars",
   "cannot find column on decompressed chunk",
   "ignoring placeholders"}

\* C20: in a plan every needed attribute of the chunk is the destination of
\* exactly one entry of the decompression map; when the target list of the
\* child lacks a needed attribute, planning fails, with the error that
\* names a missing column unless an earlier error stopped it.
C20_NeededMapped ==
  fn_out # <<>> =>
    /\ PlanDone =>
         \A a \in NeededAttributes :
           Cardinality({k \in 1..Len(fn_out.decompression_map) :
                          fn_out.decompression_map[k] = a}) = 1
    /\ MissingAttributes # {} =>
         /\ fn_out.err # ""
         /\ fn_out.err \notin EarlierErrors =>
              /\ fn_out.err = ColumnNotFound
              /\ \E a \in MissingAttributes : fn_out.err_column = ChunkRel[a]
    /\ fn_out.err = ColumnNotFound => MissingAttributes # {}

\* time and note are needed and come from the target list (time, note,
\* count): the map is (1, 3, count).
C20_Witness ==
  /\ PlanDone
  /\ NeededAttributes = {1, 3}
  /\ ScanTlist = <<TlistVar(2), TlistVar(3), TlistVar(4)>>
  /\ fn_out.decompression_map = <<1, 3, DECOMPRESS_CHUNK_COUNT_ID>>

\* The whole row is needed: attribute 0 is in the needed set.
WholeRowNeeded ==
  (0 - FirstLowInvalidHeapAttributeNumber) \in
    ChunkAttrsNeeded(fn_in,
      [i \in 1..Len(ScanClauses(fn_in)) |->
         replace_compressed_vars(ScanClauses(fn_in)[i].clause)])

\* The columns of the chunk no entry of the target list produces.
AbsentColumns == {a \in 1..Len(ChunkRel) : TlistPositions(ChunkRel[a]) = {}}

\* C21: when the whole row is needed, every column of the chunk is the
\* destination of one entry of the decompression map of the plan, and
\* planning fails when the target list of the child lacks a column of the
\* chunk.
C21_WholeRow ==
  (fn_out # <<>> /\ WholeRowNeeded) =>
    /\ PlanDone =>
         \A a \in 1..Len(ChunkRel) :
           Cardinality({k \in 1..Len(fn_out.decompression_map) :
                          fn_out.decompression_map[k] = a}) = 1
    /\ AbsentColumns # {} => fn_out.err # ""

\* The attributes of the chunk the plan uses: those of the quals of the
\* scan and of the target of the path.
UsedColumns ==
  {b + FirstLowInvalidHeapAttributeNumber :
     b \in ChunkAttrsNeeded(fn_in,
             [i \in 1..Len(ScanClauses(fn_in)) |->
                replace_compressed_vars(ScanClauses(fn_in)[i].clause)])}

\* The system columns other than tableoid.
OtherSystemColumns ==
  {a \in (FirstLowInvalidHeapAttributeNumber + 1)..(-1) :
     a # TableOidAttributeNumber}

SystemColumnError ==
  "transparent decompression only supports tableoid system column"

\* C22: planning fails with the system column error when the used columns
\* hold a system column other than tableoid, whatever else they hold, and
\* does not raise it when they hold tableoid and ordinary columns only.
C22_SystemColumns ==
  fn_out # <<>> =>
    /\ UsedColumns \cap OtherSystemColumns # {}
         => fn_out.err = SystemColumnError
    /\ (UsedColumns \cap OtherSystemColumns = {}
          /\ fn_in.path.selectedCols
               = {a - FirstLowInvalidHeapAttributeNumber : a \in UsedColumns})
         => fn_out.err # SystemColumnError

\* The check of the selected columns alone: the error is raised exactly
\* when they hold a system column other than tableoid.
SelectedColumnsChecked ==
  fn_out # <<>> =>
    (fn_out.err = SystemColumnError
       <=> \E a \in OtherSystemColumns :
             (a - FirstLowInvalidHeapAttributeNumber) \in fn_in.path.selectedCols)

\* The metadata columns of the orderby columns of the compression, the
\* minimum and the maximum of each.
OrderbyMetadata ==
  << <<"_ts_meta_min_1", "_ts_meta_max_1">>,
     <<"_ts_meta_min_2", "_ts_meta_max_2">> >>

\* The plan of a batch sorted merge.
PlanMerge == PlanDone /\ fn_in.path.batch_sorted_merge

\* The column of the child the i-th key of the sort node reads.
SortedColumn(i) ==
  CompressedRel[ScanTlist[fn_out.custom_plans[1].sortColIdx[i]].varattno].attname

\* C23: a plan of a batch sorted merge has one entry of sort information
\* per pathkey, in four lists of the same length (output column, operator,
\* collation, nulls first), and its child is a sort of the batches that has
\* per pathkey the same operator, collation and nulls first, on the minimum
\* column of the i-th orderby column for an ascending key and on its
\* maximum column for a descending one.
C23_SortInfo ==
  PlanMerge =>
    LET pk == fn_in.pathkeys
        sort == fn_out.custom_plans[1]
    IN  /\ Len(fn_out.sort_options) = 4
        /\ \A k \in 1..4 : Len(fn_out.sort_options[k]) = Len(pk)
        /\ sort.tag = "Sort"
        /\ Len(sort.sortColIdx) = Len(pk)
        /\ Len(sort.sortOperators) = Len(pk)
        /\ Len(sort.collations) = Len(pk)
        /\ Len(sort.nullsFirst) = Len(pk)
        /\ \A i \in 1..Len(pk) :
             /\ fn_out.sort_options[1][i] = pk[i].varattno
             /\ fn_out.sort_options[2][i] = pk[i].sortop
             /\ fn_out.sort_options[3][i] = ChunkCollation[pk[i].varattno]
             /\ fn_out.sort_options[4][i] = pk[i].pk_nulls_first
             /\ sort.sortOperators[i] = fn_out.sort_options[2][i]
             /\ sort.collations[i] = fn_out.sort_options[3][i]
             /\ sort.nullsFirst[i] = fn_out.sort_options[4][i]
             /\ sort.sortColIdx[i] \in 1..Len(ScanTlist)
             /\ SortedColumn(i) =
                  OrderbyMetadata[i][IF pk[i].pk_strategy = "BTLessStrategyNumber"
                                     THEN 1 ELSE 2]

\* Over the target list (device, note, count, sequence number, and the four
\* minimum and maximum columns) the merge on time descending, note
\* ascending sorts the batches on the positions of _ts_meta_max_1 and
\* _ts_meta_min_2.
C23_Witness ==
  /\ PlanMerge
  /\ Len(fn_in.pathkeys) = 2
  /\ fn_in.pathkeys[1].pk_strategy = "BTGreaterStrategyNumber"
  /\ fn_in.pathkeys[2].pk_strategy = "BTLessStrategyNumber"
  /\ fn_in.dropped_columns
  /\ fn_out.sort_options[1] = <<1, 3>>
  /\ fn_out.sort_options[3] = <<"", "default">>
  /\ fn_out.custom_plans[1].sortColIdx = <<6, 7>>
  /\ fn_out.custom_plans[1].sortOperators = <<">", "<">>

(***************************************************************************)
(* The node over the plans of the planner: every target list of the child  *)
(* in the order of the attributes and some in another order, every set of  *)
(* needed columns, with and without the sequence number, in row mode and   *)
(* in aggregation mode; and plans over wider tables.                       *)
(***************************************************************************)
\* Target lists that are not in the order of the attributes (an index).
UnorderedTargetlists ==
  {<<TlistVar(4), TlistVar(1), TlistVar(2)>>,
   <<TlistVar(5), TlistVar(4), TlistVar(3), TlistVar(2), TlistVar(1)>>,
   <<TlistVar(2), TlistVar(4), TlistVar(1), TlistVar(5)>>}

OpenInputs ==
  {[PlanInBase EXCEPT
      !.dropped_columns = TRUE,
      !.compressed_scan_targetlist = tl,
      !.pathtarget = t,
      !.ts_guc_enable_bulk_decompression = g,
      !.path.needs_sequence_num = s] :
     tl \in AscendingLists(5) \cup UnorderedTargetlists,
     t \in (SUBSET {0, 1, 2, 3}) \ {{}},
     g \in BOOLEAN,
     s \in BOOLEAN}
  \cup
  {[PlanInBase EXCEPT
      !.dropped_columns = TRUE,
      !.compressed_scan_targetlist = tl,
      !.pathtarget = {a},
      !.path.perform_vectorized_aggregation = TRUE,
      !.path.agg_varattno = a,
      !.path.needs_sequence_num = s] :
     tl \in AscendingLists(5) \cup UnorderedTargetlists,
     a \in {1, 2},
     s \in BOOLEAN}

\* The plan the node is created from (lines 1066-1087).
ExecutorPlan(out) ==
  [PlanRow EXCEPT
     !.decompression_map = out.decompression_map,
     !.is_segmentby_column = out.is_segmentby_column,
     !.bulk_decompression_column = out.bulk_decompression_column,
     !.vectorized_aggregation_column = out.vectorized_aggregation_column,
     !.reverse = out.settings[3],
     !.enable_bulk_decompression = out.settings[5],
     !.perform_vectorized_aggregation = out.settings[6],
     !.aggfnoid = IF out.settings[6] THEN "F_SUM_INT4" ELSE "none"]

\* A table of n columns of one width that are all decompressed in bulk.
PlanWide(n, width) ==
  [PlanRow EXCEPT
     !.decompression_map =
        [i \in 1..(n + 1) |-> IF i <= n THEN i ELSE DECOMPRESS_CHUNK_COUNT_ID],
     !.is_segmentby_column = [i \in 1..(n + 1) |-> FALSE],
     !.bulk_decompression_column = [i \in 1..(n + 1) |-> i <= n],
     !.desc = [i \in 1..n |-> width]]

PlansOpen ==
  {ExecutorPlan(decompress_chunk_plan_create(in)) :
     in \in {i \in OpenInputs : decompress_chunk_plan_create(i).err = ""}}
  \cup {PlanWide(n, width) : n \in {2, 3, 60}, width \in {1, 2, 4, 8, 16}}

\* The tuple of a batch of the child under a plan: a blob for a compressed
\* column, a scalar for the others.
OpenBatch(p) ==
  IF p.perform_vectorized_aggregation
  THEN AggBatch([i \in 1..Len(p.decompression_map) |->
                   IF p.decompression_map[i] > 0 /\ ~p.is_segmentby_column[i]
                   THEN BlobDatum(<<1, 2>>, <<1, 1>>)
                   ELSE ScalarDatum(2)])
  ELSE RowBatch(<<1>>, <<TRUE>>)

InitOpen ==
  \E p \in PlansOpen :
    \E c \in ListsUpTo({OpenBatch(p)}, MaxBatches) : InitNode(p, c)

SpecOpen == InitOpen /\ [][Next]_vars

\* The node is open: decompress_chunk_begin has built the descriptor table.
NodeOpen == phase = "open"

\* The positions of the decompression map with a destination.
MappedPositions ==
  {i \in 1..Len(chunk_state.decompression_map) :
     chunk_state.decompression_map[i] # 0}

\* The descriptors d1 < d2 are in the order of the target list of the child.
TlistOrder(d1, d2) ==
  chunk_state.template_columns[d1].compressed_scan_attno
    < chunk_state.template_columns[d2].compressed_scan_attno

\* C24: after open the descriptor table has num_total entries, one per
\* position of the map with a non-zero destination; the first
\* num_compressed of them are the descriptors of the compressed columns and
\* the rest those of the segmentby and metadata columns, each group in the
\* order of the target list of the child; and the metadata descriptors, and
\* only they, have a negative output position.
C24_DensePrefix ==
  NodeOpen =>
    LET t == chunk_state.template_columns
        nc == chunk_state.num_compressed_columns
        nt == chunk_state.num_total_columns
    IN  /\ Len(t) = nt
        /\ nt = Cardinality(MappedPositions)
        /\ nc <= nt
        /\ \A i \in MappedPositions :
             \E d \in 1..nt :
               /\ t[d].compressed_scan_attno = i
               /\ t[d].output_attno = chunk_state.decompression_map[i]
               /\ \A e \in 1..nt : t[e].compressed_scan_attno = i => e = d
        /\ \A d \in 1..nt :
             /\ t[d].compressed_scan_attno \in MappedPositions
             /\ d <= nc <=> t[d].type = "COMPRESSED_COLUMN"
             /\ d > nc <=> t[d].type \in {"SEGMENTBY_COLUMN", "COUNT_COLUMN",
                                          "SEQUENCE_NUM_COLUMN"}
             /\ t[d].type = "COMPRESSED_COLUMN" <=>
                  /\ t[d].output_attno > 0
                  /\ ~chunk_state.is_segmentby_column[t[d].compressed_scan_attno]
             /\ t[d].output_attno < 0 <=>
                  t[d].type \in {"COUNT_COLUMN", "SEQUENCE_NUM_COLUMN"}
        /\ \A d1 \in 1..nt : \A d2 \in 1..nt :
             (d1 < d2 /\ (d2 <= nc \/ d1 > nc)) => TlistOrder(d1, d2)

\* Over the target list (device, time, note, count, sequence number) with
\* every column needed the table is time, note, device, count, sequence
\* number.
C24_Witness ==
  /\ NodeOpen
  /\ chunk_state.decompression_map =
       <<2, 1, 3, DECOMPRESS_CHUNK_COUNT_ID, DECOMPRESS_CHUNK_SEQUENCE_NUM_ID>>
  /\ chunk_state.num_compressed_columns = 2
  /\ chunk_state.num_total_columns = 5
  /\ [d \in 1..5 |-> chunk_state.template_columns[d].compressed_scan_attno]
       = <<2, 3, 1, 4, 5>>
  /\ [d \in 1..5 |-> chunk_state.template_columns[d].type]
       = <<"COMPRESSED_COLUMN", "COMPRESSED_COLUMN", "SEGMENTBY_COLUMN",
           "COUNT_COLUMN", "SEQUENCE_NUM_COLUMN">>

\* The overhead per column: the Arrow structure, its two buffers, and the
\* headers of the memory context.
HeaderOverhead == SizeofArrowArray + SizeofPointer * 2 + SizeofPointer * 3

\* The sum of the specification over the descriptors that support bulk
\* decompression, from descriptor d on.
RECURSIVE ArenaSum(_)
ArenaSum(d) ==
  IF d > Len(chunk_state.template_columns) THEN 0
  ELSE (IF chunk_state.template_columns[d].bulk_decompression_supported
        THEN (MaxRowsPerBatch + 64) * chunk_state.template_columns[d].value_bytes
               + (MaxRowsPerBatch \div 64) * 8
               + HeaderOverhead
        ELSE 0)
       + ArenaSum(d + 1)

ArenaTarget == Min(((ArenaSum(1) + 4095) \div 4096) * 4096, 1024 * 1024)

\* The size is a positive multiple of 4096 of at most 1 MiB.
ArenaInPages ==
  NodeOpen =>
    /\ chunk_state.batch_memory_context_bytes > 0
    /\ chunk_state.batch_memory_context_bytes % 4096 = 0
    /\ chunk_state.batch_memory_context_bytes <= 1024 * 1024

\* C25: the size of the memory context of a batch computed at open is the
\* sum over the columns that support bulk decompression of
\* (N_MAX + 64) * value_width + N_MAX / 64 * 8 + header_overhead, rounded
\* up to a multiple of 4096 and limited to 1 MiB; it is a positive multiple
\* of 4096 of at most 1048576.
C25_ArenaSizing ==
  NodeOpen =>
    /\ chunk_state.batch_memory_context_bytes = ArenaTarget
    /\ chunk_state.batch_memory_context_bytes > 0
    /\ chunk_state.batch_memory_context_bytes % 4096 = 0
    /\ chunk_state.batch_memory_context_bytes <= 1024 * 1024

\* Row a comes out before row b in a merge: by the sort key, then by the
\* batch, then by the position in the batch.
MergesBefore(a, b) ==
  \/ PlanSortsBefore(a.key, b.key)
  \/ /\ a.key = b.key
     /\ \/ a.b < b.b
        \/ a.b = b.b /\ a.i < b.i

\* The rows of a set in the order of the merge.
RECURSIVE MergedRows(_)
MergedRows(rows) ==
  IF rows = {} THEN <<>>
  ELSE LET first == CHOOSE r \in rows :
                      \A q \in rows : q = r \/ MergesBefore(r, q)
       IN  <<first>> \o MergedRows(rows \ {first})

\* The state a rescan leaves: no call of exec was made since.
JustRescanned == phase = "open" /\ rescans > 0 /\ result.kind = "none"

\* C26: a rescan, from whatever state, leaves the queue empty, every batch
\* state unused and the child at its start; and the rows exec returns after
\* it are those a node that was just opened returns over the same child:
\* the merge of the rows of the child, to the end of the stream.
C26_Rescan ==
  (HeapMode /\ rescans > 0) =>
    /\ JustRescanned =>
         /\ chunk_state.heap = <<>>
         /\ Cardinality(unused_batch_states(chunk_state))
              = n_batch_states(chunk_state)
         /\ child_pos = 1
         /\ child_calls = 0
         /\ output = <<>>
    /\ Len(output) <= Cardinality(AllRows)
    /\ OutputRows = SubSeq(MergedRows(AllRows), 1, Len(output))
    /\ result.kind = "eos" => Len(output) = Cardinality(AllRows)
    /\ result.kind = "row" => result.row = output[Len(output)].row

\* Two batch states were in use before the rescan, and after it the
\* batches 1,4,7 and 2,3,8 came out merged to the end.
C26_Witness ==
  /\ HeapMode
  /\ rescans = 1
  /\ child = ExampleMerge
  /\ aux.open >= 2
  /\ result.kind = "eos"
  /\ [i \in 1..Len(output) |-> output[i].row.key] = <<1, 2, 3, 4, 7, 8>>

\* The rescan was made while two batch states were in use.
RescannedWithOpenBatches ==
  /\ JustRescanned
  /\ chunk_state.batch_queue = "heap"
  /\ aux.open >= 2
  /\ Len(child) >= 2

VectorQualsForbidden == "debug: encountered vector quals when they are disabled"

NonVectorQualsForbidden ==
  "debug: encountered non-vector quals when they are disabled"

\* Plan creation came to the check of lines 887-897: it made the plan or
\* raised one of the two errors of the check.
GateReached ==
  /\ fn_out # <<>>
  /\ fn_out.err \in {"", VectorQualsForbidden, NonVectorQualsForbidden}

\* The quals were candidates for vectorization: bulk decompression was
\* enabled and the classification ran over at least one qual.
HasCandidates == fn_out.settings[5] /\ Len(fn_out.input_qual) > 0

\* C27 as stated: with RVQ_Only the error is raised exactly when a residual
\* qual is kept and there is a candidate for vectorization; with RVQ_Forbid
\* exactly when a qual was vectorized; with RVQ_Allow never.
C27_AsStated ==
  (GateReached /\ fn_in.ts_debug) =>
    /\ fn_in.debug_require_vector_qual = "RVQ_Only" =>
         (fn_out.err # "" <=>
            (Len(fn_out.scan_plan_qual) > 0 /\ HasCandidates))
    /\ fn_in.debug_require_vector_qual = "RVQ_Forbid" =>
         (fn_out.err # "" <=> Len(fn_out.custom_exprs) > 0)
    /\ fn_in.debug_require_vector_qual = "RVQ_Allow" => fn_out.err = ""

\* C27 (amended): in a debug build, with RVQ_Only the error is raised
\* exactly when a residual qual is kept, whether or not a qual was or could
\* be vectorized; with RVQ_Forbid exactly when a qual was vectorized; with
\* RVQ_Allow, and in a build without the debug code, never.
C27_Gate ==
  GateReached =>
    /\ fn_out.err = NonVectorQualsForbidden <=>
         /\ fn_in.ts_debug
         /\ fn_in.debug_require_vector_qual = "RVQ_Only"
         /\ Len(fn_out.scan_plan_qual) > 0
    /\ fn_out.err = VectorQualsForbidden <=>
         /\ fn_in.ts_debug
         /\ fn_in.debug_require_vector_qual = "RVQ_Forbid"
         /\ Len(fn_out.custom_exprs) > 0
    /\ (fn_in.debug_require_vector_qual = "RVQ_Allow" \/ ~fn_in.ts_debug)
         => fn_out.err = ""

\* With RVQ_Only and bulk decompression off the one qual stayed residual
\* and the error was raised, no qual being a candidate.
C27_Witness ==
  /\ GateReached
  /\ fn_in.ts_debug
  /\ fn_in.debug_require_vector_qual = "RVQ_Only"
  /\ ~fn_out.settings[5]
  /\ Len(fn_out.input_qual) = 1
  /\ fn_out.scan_plan_qual = <<1>>
  /\ fn_out.custom_exprs = <<>>
  /\ fn_out.err = NonVectorQualsForbidden

(***************************************************************************)
(* The node over target lists with system columns.  The projection is      *)
(* there (ExecInitCustomScan) unless the target list is the Vars of the    *)
(* columns of the scan tuple in their order.                               *)
(***************************************************************************)
ScanVar(varattno) == TlistNode("Var", 1, varattno, 0, <<>>)

TlistOpExpr(args) == TlistNode("OpExpr", 0, 0, 0, args)

PhysicalTlist == <<ScanVar(1), ScanVar(2), ScanVar(3)>>

ProjectionNodes ==
  LET leaves == {ScanVar(a) : a \in {-6, -5, -4, -3, -2, -1, 1, 2}}
                \cup {TlistNode("Var", 2, -6, 0, <<>>),
                      TlistNode("Var", 2, -3, 0, <<>>),
                      TlistNode("Const", 0, 0, 7, <<>>)}
  IN  leaves \cup {TlistOpExpr(<<l, TlistNode("Const", 0, 0, 7, <<>>)>>) :
                     l \in leaves}

ProjectionTlists == {PhysicalTlist} \cup SeqsUpTo(ProjectionNodes, 2)

PlansProjection ==
  {[PlanRow EXCEPT !.targetlist = tl, !.ps_ProjInfo = (tl # PhysicalTlist)] :
     tl \in ProjectionTlists}

InitProjection ==
  \E p \in PlansProjection :
    \E c \in ListsUpTo({RowBatch(<<1>>, <<TRUE>>)}, 1) : InitNode(p, c)

SpecProjection == InitProjection /\ [][Next]_vars

\* The Vars of the scanned relation in a node.
RECURSIVE ScanVars(_)
ScanVars(node) ==
  IF node.tag = "Var"
  THEN IF node.varno = plan.scanrelid THEN {node.varattno} ELSE {}
  ELSE UNION {ScanVars(node.args[i]) : i \in 1..Len(node.args)}

TlistScanVars(tlist) == UNION {ScanVars(tlist[i]) : i \in 1..Len(tlist)}

\* The node has gone through decompress_chunk_begin.
BeginDone == phase # "created"

SystemColumnMessage ==
  "transparent decompression only supports tableoid system column"

\* C28: once a projecting node is past decompress_chunk_begin, a target
\* list with a system column of the chunk other than tableoid (ctid, xmin,
\* cmin, xmax, cmax) has raised the error; otherwise the node is open and
\* the target list of its projection has no system column of the chunk:
\* with a tableoid it is the original list with the constant chunk relation
\* id in the place of every tableoid and the projection was built again,
\* without one it is the original list and the projection was built once.
C28_ProjectionSystemColumns ==
  (BeginDone /\ plan.ps_ProjInfo) =>
    LET used == TlistScanVars(plan.targetlist)
    IN  IF \E a \in used : a < 0 /\ a # TableOidAttributeNumber
        THEN phase = "error" /\ result.err = SystemColumnMessage
        ELSE /\ phase = "open"
             /\ \A a \in TlistScanVars(chunk_state.projection_targetlist) : a > 0
             /\ IF TableOidAttributeNumber \in used
                THEN /\ chunk_state.projection_builds = 2
                     /\ chunk_state.projection_targetlist # plan.targetlist
                ELSE /\ chunk_state.projection_builds = 1
                     /\ chunk_state.projection_targetlist = plan.targetlist

\* A reference to ctid of the chunk is in the projection of an open node.
CtidReachesProjection ==
  /\ phase = "open"
  /\ SelfItemPointerAttributeNumber
       \in TlistScanVars(chunk_state.projection_targetlist)

\* The first exec of a node in aggregation mode has taken a batch slot:
\* perform_vectorized_sum_int4 has run.
SumComputed ==
  /\ plan.perform_vectorized_aggregation
  /\ phase # "created"
  /\ chunk_state.template_columns # <<>>
  /\ Cardinality(unused_batch_states(chunk_state)) # n_batch_states(chunk_state)

\* The batch slots in use.
UsedBatchSlots ==
  (0..(n_batch_states(chunk_state) - 1)) \ unused_batch_states(chunk_state)

\* C29: when aggregation mode has computed its sum, what the function
\* asserts is true of the node: the descriptor table has two entries, the
\* first is the aggregated column (segmentby or compressed), the second is
\* the count column, and the batch slot taken is slot 0.
C29_SumAssertions ==
  SumComputed =>
    /\ chunk_state.num_total_columns = 2
    /\ chunk_state.template_columns[1].type
         \in {"SEGMENTBY_COLUMN", "COMPRESSED_COLUMN"}
    /\ chunk_state.template_columns[2].type = "COUNT_COLUMN"
    /\ UsedBatchSlots = {0}

\* The sum ran over a descriptor table of three entries.
SumOverThreeColumns ==
  SumComputed /\ chunk_state.num_total_columns = 3

\* The sum ran over a descriptor table whose first entry is the count.
SumOverCountFirst ==
  SumComputed /\ chunk_state.template_columns[1].type = "COUNT_COLUMN"

\* The attribute numbers make_vectorized_qual reads the array of
\* compression info at (line 509) for qual i of a list: after the
\* commutation, the Var on the left of a right side that is a run-time
\* constant.
QualIndexAttnos(nodes, i) ==
  IF nodes[i].tag # "OpExpr" \/ Len(nodes[i].args) # 2 THEN {}
  ELSE LET c == CommuteIfVarOnRight(nodes, i)
           o == c.nodes[c.o]
       IN  IF o.args[1].tag = "Var" /\ ~is_not_runtime_constant(o.args[2])
           THEN {o.args[1].varattno}
           ELSE {}

\* The plan was made with the split of the quals: find_vectorized_quals has
\* gone over the quals of the scan.
QualsSplit ==
  /\ fn_out # <<>>
  /\ fn_out.settings # <<>>
  /\ fn_out.settings[5]

IndexedAttnos ==
  UNION {QualIndexAttnos(fn_out.input_qual, i) :
           i \in 1..Len(fn_out.input_qual)}

\* C30: for every qual that reached make_vectorized_qual, the attribute
\* number the array of compression info is read at is in 0 .. the largest
\* attribute number of the chunk, quals on the whole row and on system
\* columns included: no read is outside the array.
C30_IndexInRange ==
  QualsSplit => \A a \in IndexedAttnos : a \in 0..Len(ChunkRel)

\* A qual on the whole row was looked up at index 0.
WholeRowQualIndexed == QualsSplit /\ 0 \in IndexedAttnos

\* A qual on ctid was looked up before the start of the array.
CtidQualIndexed == QualsSplit /\ SelfItemPointerAttributeNumber \in IndexedAttnos

====
